---------------------------- MODULE Spec2Model ----------------------------
(***************************************************************************)
(* A model of nc-monitoring: the store-hours evaluator, the screenshot     *)
(* status reducer and run loop of checks/screenshot_health.py, and the     *)
(* zone sheet synchronisation of checks/version_by_zone.py with the        *)
(* row helpers of clients/sheets_client.py, the two paginated listings,    *)
(* the date filter and the black-screen test of the screenshot check,      *)
(* APIClient._request and the scheduler of scheduler/runner.py.            *)
(*                                                                         *)
(* Python values are modelled as tagged records.  A call that can end in   *)
(* an uncaught exception has the extra outcome "Raise".                    *)
(***************************************************************************)
EXTENDS Integers, Sequences, FiniteSets, TLC

VARIABLES
    \* ---- is_store_open(store_hours_json, timezone_name) ----
    sh_json,        \* the storeHours argument
    sh_tz,          \* the timezone_name argument
    sh_clock,       \* the instant of the call (seconds since Monday 00:00:00 UTC)
    sh_ret,         \* "pending" before the call, then "True" | "False" | "Raise"
    \* ---- _process_license(api, ws, row_counter, license_data) ----
    pl_lic,         \* license_data
    pl_resp,        \* what api.get_screenshots returns for the license
    pl_clock,       \* the instant of the call
    pl_out,         \* [k |-> "pending"], then the outcome of the call
    \* ---- run_screenshot_health() ----
    rs_pc,          \* "idle" between runs, "fetch" at the top of the page
                    \* loop, "process" inside the device loop
    rs_page,        \* page
    rs_queue,       \* the licenses of the current page not yet processed
    rs_row_counter, \* row_counter
    rs_sheet,       \* the rows of the day's worksheet, the header first
    rs_runs,        \* the runs that have completed
    rs_opened,      \* per license key, the devices the runs found open
                    \* (counted up to one more than the sheet can hold)
    rs_requests,    \* the page numbers requested so far in this run
    rs_taken,       \* the pages of this run whose devices were taken
    rs_last,        \* how the last call of _process_license ended
    \* ---- _fetch_zone_licenses(api, zone) ----
    zf_pc,          \* "idle" before the call, "fetch" at the top of the loop,
                    \* "done" after the return, "raised" after an exception
    zf_page,        \* page
    zf_licenses,    \* licenses
    zf_requests,    \* the page numbers requested so far
    zf_taken,       \* the pages whose licenses were taken
    \* ---- _sync_zone_sheet(sheets, zone, mismatch_results) ----
    zs_pc,          \* "ready" before the call, "done" after it
    zs_prior,       \* the rows of the zone worksheet before the call
    zs_results,     \* mismatch_results
    zs_fails,       \* the upserts whose lookup in the sheet raised
    zs_sheet,       \* the rows of the zone worksheet
    \* ---- start_scheduler() and the jobs of register_jobs ----
    sc_state,       \* "running" in the sleep loop, "shutdown" after an
                    \* interrupt, "crashed" if the process died
    sc_agent,       \* is_anydesk_agent
    sc_running,     \* per job id, the runs now executing
    sc_fired,       \* per job id, the times its interval has fired
    sc_last,        \* per job id, what became of its last firing
    sc_failures,    \* per job id, the runs that ended in an exception
    \* ---- APIClient._request(method, path, ...) ----
    ar_pc,          \* where the call stands
    ar_base_url,    \* bool(self.base_url)
    ar_token,       \* bool(self.token)
    ar_cookies,     \* bool(self.session.cookies)
    ar_retry_on_401,\* retry_on_401 of the call now running
    ar_resp,        \* resp, [t |-> "none"] before the first response
    ar_ret,         \* the value returned, [t |-> "pending"] until then
    ar_attempts,    \* the requests sent to the target URL
    ar_relogins,    \* the calls of login() that a 401 has caused
    ar_logins,      \* all calls of login()
    \* ---- run_version_zone_check() ----
    zc_pc,          \* where the body of the zone loop stands
    zc_zone,        \* the index of the zone in ZONES
    zc_queue,       \* the licenses still to be checked
    zc_restarts,    \* the calls of restart_player for the zone, in order
    \* ---- SheetsClient.upsert_row(ws, key_value, values, key_col=1) ----
    us_sheet,       \* the rows of the worksheet
    us_before,      \* the rows before the last upsert
    us_calls,       \* the upserts made: key_value, and whether the lookup raised
    \* ---- filter_screenshots_for_today(file_urls, timezone_name, ...) ----
    fs_urls,        \* file_urls, each URL the sequence of its characters
    fs_tz,          \* timezone_name
    fs_clock,       \* the instant of the call
    fs_out,         \* [t |-> "pending"], then the list returned
    \* ---- is_black_screen(image) ----
    bs_image,       \* image
    bs_ret,         \* "pending" before the call, then "True" | "False"
    \* ---- _extract_timestamp_from_url(url, timezone_name) ----
    et_url,         \* url, the sequence of its characters
    et_tz,          \* timezone_name
    et_ret          \* [t |-> "pending"], then the text returned

hoursVars == <<sh_json, sh_tz, sh_clock, sh_ret>>
licenseVars == <<pl_lic, pl_resp, pl_clock, pl_out>>
runVars == <<rs_pc, rs_page, rs_queue, rs_row_counter, rs_sheet, rs_runs,
             rs_opened, rs_requests, rs_taken, rs_last>>
zoneFetchVars == <<zf_pc, zf_page, zf_licenses, zf_requests, zf_taken>>
syncVars == <<zs_pc, zs_prior, zs_results, zs_fails, zs_sheet>>
zoneCheckVars == <<zc_pc, zc_zone, zc_queue, zc_restarts>>
upsertVars == <<us_sheet, us_before, us_calls>>
requestVars == <<ar_pc, ar_base_url, ar_token, ar_cookies, ar_retry_on_401,
                 ar_resp, ar_ret, ar_attempts, ar_relogins, ar_logins>>
schedVars == <<sc_state, sc_agent, sc_running, sc_fired, sc_last, sc_failures>>
filterVars == <<fs_urls, fs_tz, fs_clock, fs_out>>
blackVars == <<bs_image, bs_ret>>
timestampVars == <<et_url, et_tz, et_ret>>

(***************************************************************************)
(* Bounds of the model.                                                    *)
(***************************************************************************)
MaxDays == 1        \* day entries in a schedule
MaxPeriods == 1     \* periods in a day entry
MaxFiles == 4       \* URLs in a screenshot listing
MaxRuns == 2        \* runs of run_screenshot_health
MaxPages == 1       \* non-empty pages of a device listing
MaxPageLen == 2     \* licenses on a page
MaxRows == 3        \* data rows of the day's worksheet
MaxPrior == 3       \* data rows of a zone worksheet before a sync
MaxResults == 2     \* entries of mismatch_results
MaxFires == 2       \* firings of one job's interval
MaxSample == 5      \* URLs in a listing of the sampling specification
MaxUpserts == 3     \* calls of upsert_row in a row
MaxZoneLicenses == 2 \* licenses of a zone in the version-by-zone check
MaxUrls == 2        \* URLs of a listing after its run of equal ones
MaxCount == 10      \* pixels of one luminance level

(***************************************************************************)
(* Sequences over S of length at most n.                                   *)
(***************************************************************************)
SeqsUpTo(S, n) == UNION {[1..k -> S] : k \in 0..n}

(***************************************************************************)
(* The clock.  datetime.now(tz) is the instant sh_clock seen in zone tz.   *)
(***************************************************************************)
DaySeconds == 24 * 3600
WeekSeconds == 7 * DaySeconds

DayNames == <<"Monday", "Tuesday", "Wednesday", "Thursday", "Friday",
              "Saturday", "Sunday">>

At(d, h, m, s) == d * DaySeconds + h * 3600 + m * 60 + s

\* pytz.timezone(name) succeeds for these names and raises for any other.
KnownZones == {"UTC", "US/Central"}

UtcOffset(tz) == IF tz = "US/Central" THEN -6 * 3600 ELSE 0

\* datetime.now(tz): the local instant, in seconds since Monday 00:00:00.
LocalNow(tz, clock) == (clock + UtcOffset(tz) + WeekSeconds) % WeekSeconds

\* now.time()
TimeOfDay(local) == local % DaySeconds

\* now.strftime("%A")
DayNameOf(local) == DayNames[(local \div DaySeconds) + 1]

\* The weekday after the one named d.
NextDayName(d) ==
    LET i == CHOOSE k \in 1..7 : DayNames[k] = d
    IN DayNames[(i % 7) + 1]

(***************************************************************************)
(* datetime.time(hour, minute, second) and datetime.strptime.              *)
(***************************************************************************)
\* An hour-data object: the keys it has and their (integer) values.
HourData(has, h, m, s) ==
    [t |-> "obj", has |-> has, hour |-> h, minute |-> m, second |-> s]

\* o.get(key, 0)
FieldOrZero(o, key) == IF key \in o.has THEN o[key] ELSE 0

\* time(hour=..., minute=..., second=...): ValueError for a field out of
\* range, AttributeError when o is no object.
MakeTime(o) ==
    IF o.t # "obj" THEN [k |-> "raise"]
    ELSE LET h == FieldOrZero(o, "hour")
             m == FieldOrZero(o, "minute")
             s == FieldOrZero(o, "second")
         IN IF h \in 0..23 /\ m \in 0..59 /\ s \in 0..59
            THEN [k |-> "ok", tod |-> h * 3600 + m * 60 + s]
            ELSE [k |-> "raise"]

\* A time string: "H:MM AM" (f = "12h"), "H:MM" (f = "24h") or another text.
Str12(h, m, pm) == [f |-> "12h", h |-> h, m |-> m, pm |-> pm]
Str24(h, m) == [f |-> "24h", h |-> h, m |-> m, pm |-> FALSE]
StrJunk == [f |-> "junk", h |-> 0, m |-> 0, pm |-> FALSE]
StrAbsent == [f |-> "absent", h |-> 0, m |-> 0, pm |-> FALSE]

\* datetime.strptime(s, fmt).time() for fmt "%I:%M %p" and "%H:%M":
\* "bad" stands for ValueError.
Strptime(s, fmt) ==
    IF fmt = "%I:%M %p"
    THEN IF s.f = "12h" /\ s.h \in 1..12 /\ s.m \in 0..59
         THEN [k |-> "ok",
               tod |-> ((s.h % 12) + (IF s.pm THEN 12 ELSE 0)) * 3600 + s.m * 60]
         ELSE [k |-> "bad"]
    ELSE IF s.f = "24h" /\ s.h \in 0..23 /\ s.m \in 0..59
         THEN [k |-> "ok", tod |-> s.h * 3600 + s.m * 60]
         ELSE [k |-> "bad"]

(***************************************************************************)
(* Periods, day entries and schedules (decoded JSON).                      *)
(***************************************************************************)
NewPeriod(o, c) == [t |-> "new", o |-> o, c |-> c]
OldPeriod(open, close) == [t |-> "old", open |-> open, close |-> close]
NotObject == [t |-> "notobj"]

Formats == <<"%I:%M %p", "%H:%M">>

\* _parse_period: [k |-> "ok", o, c], [k |-> "none"] or [k |-> "raise"].
ParseOld(period, i) ==
    LET o_dt == Strptime(period.open, Formats[i])
        c_dt == Strptime(period.close, Formats[i])
    IN IF o_dt.k = "ok" /\ c_dt.k = "ok"
       THEN [k |-> "ok", o |-> o_dt.tod, c |-> c_dt.tod]
       ELSE [k |-> "none"]

ParsePeriod(period) ==
    IF period.t = "notobj" THEN [k |-> "raise"]
    ELSE IF period.t = "new"
    THEN LET opening_time == MakeTime(period.o)
             closing_time == MakeTime(period.c)
         IN IF opening_time.k = "ok" /\ closing_time.k = "ok"
            THEN [k |-> "ok", o |-> opening_time.tod, c |-> closing_time.tod]
            ELSE [k |-> "raise"]
    ELSE IF period.open.f = "absent" \/ period.close.f = "absent"
    THEN [k |-> "none"]
    ELSE IF ParseOld(period, 1).k = "ok" THEN ParseOld(period, 1)
    ELSE ParseOld(period, 2)

\* Mutant of PeriodOpen: the closing time excluded.
PeriodOpenBeforeClosing(opening_time, closing_time, current_time) ==
    IF opening_time <= closing_time
    THEN opening_time <= current_time /\ current_time < closing_time
    ELSE current_time >= opening_time \/ current_time < closing_time

\* Lines 205-212: whether a parsed period holds the current time of day.
PeriodOpen(opening_time, closing_time, current_time) ==
    IF opening_time <= closing_time
    THEN opening_time <= current_time /\ current_time <= closing_time
    ELSE current_time >= opening_time \/ current_time <= closing_time

\* The loop over a day's periods: "True", "Raise", or "Next" (fall through).
RECURSIVE ScanPeriods(_, _, _)
ScanPeriods(periods, j, current_time) ==
    IF j > Len(periods) THEN "Next"
    ELSE LET parsed == ParsePeriod(periods[j])
         IN IF parsed.k = "raise" THEN "Raise"
            ELSE IF parsed.k = "ok" /\ PeriodOpen(parsed.o, parsed.c, current_time)
            THEN "True"
            ELSE ScanPeriods(periods, j + 1, current_time)

\* A day entry: status and day are "absent" when the key is missing.
DayEntry(day, status, periods) ==
    [t |-> "obj", day |-> day, status |-> status, periods |-> periods]

\* A mutant of ScanDay: the status of the day not looked at.
ScanDayAnyStatus(day, local) ==
    IF day.t # "obj" THEN "Raise"
    ELSE IF day.day # "absent" /\ day.day # DayNameOf(local) THEN "Next"
    ELSE ScanPeriods(day.periods, 1, TimeOfDay(local))

\* One iteration of "for day in store_hours".
ScanDay(day, local) ==
    IF day.t # "obj" THEN "Raise"
    ELSE IF day.status = "false" THEN "Next"
    ELSE IF day.day # "absent" /\ day.day # DayNameOf(local) THEN "Next"
    ELSE ScanPeriods(day.periods, 1, TimeOfDay(local))

RECURSIVE ScanDays(_, _, _)
ScanDays(days, i, local) ==
    IF i > Len(days) THEN "False"
    ELSE LET r == ScanDay(days[i], local)
         IN IF r = "Next" THEN ScanDays(days, i + 1, local) ELSE r

\* What "for day in store_hours" iterates over, by the decoded value's type:
\* a list gives its items, an object its keys and a string its characters
\* (strings, which have no .get), null and numbers are not iterable.
ScanValue(store_hours, local) ==
    CASE store_hours.t = "list" -> ScanDays(store_hours.items, 1, local)
      [] store_hours.t \in {"emptyobject", "emptystring"} -> "False"
      [] store_hours.t \in {"object", "string"} -> "Raise"
      [] OTHER -> "Raise"

\* is_store_open.  store_hours_json is [t |-> "none"] (None or ""),
\* [t |-> "notstr"] (a non-empty non-string), [t |-> "badjson"] (text that
\* is not JSON) or [t |-> "json", v |-> the decoded value].
\* Lines 141-145: the zone the evaluation uses.
EffectiveZone(timezone_name) ==
    LET asked == IF timezone_name = "" THEN "US/Central" ELSE timezone_name
    IN IF asked \in KnownZones THEN asked ELSE "US/Central"

IsStoreOpen(store_hours_json, timezone_name, clock) ==
    IF store_hours_json.t = "none" THEN "False"
    ELSE IF store_hours_json.t \in {"notstr", "badjson"} THEN "False"
    ELSE ScanValue(store_hours_json.v,
                   LocalNow(EffectiveZone(timezone_name), clock))

(***************************************************************************)
(* The inputs of the store-hours specification.                            *)
(***************************************************************************)
FullKeys == {"hour", "minute", "second"}

PeriodValues ==
    { NewPeriod(HourData(FullKeys, 9, 0, 0), HourData(FullKeys, 17, 0, 0)),
      NewPeriod(HourData({"hour"}, 22, 0, 0), HourData({"hour"}, 6, 0, 0)),
      NewPeriod(HourData(FullKeys, 25, 0, 0), HourData(FullKeys, 3, 0, 0)),
      OldPeriod(Str12(9, 0, FALSE), Str12(5, 0, TRUE)),
      OldPeriod(Str12(9, 0, FALSE), Str24(17, 0)),
      OldPeriod(Str24(22, 0), Str24(6, 0)) }

DayHeads ==
    { <<"Monday", "true">>, <<"Monday", "false">>, <<"Tuesday", "true">>,
      <<"absent", "absent">> }

DayValues ==
    { DayEntry(h[1], h[2], ps) :
        h \in DayHeads, ps \in SeqsUpTo(PeriodValues, MaxPeriods) }
    \cup {NotObject}

JsonValues ==
    { [t |-> "list", items |-> ds] : ds \in SeqsUpTo(DayValues, MaxDays) }
    \cup { [t |-> "null"], [t |-> "number"], [t |-> "object"],
           [t |-> "emptyobject"] }

StoreHoursInputs ==
    { [t |-> "none"], [t |-> "notstr"], [t |-> "badjson"] }
    \cup { [t |-> "json", v |-> v] : v \in JsonValues }

ZoneNames == {"US/Central", "UTC", "Mars/Phobos"}

\* Instants of the week, in UTC: in US/Central they are Sunday 21:00:00,
\* Monday 08:59:59, 09:00:00, 09:02:00, 09:06:00, 17:00:00, 17:00:01,
\* 22:10:00, and Tuesday 03:00:00.
ClockValues ==
    { At(0, 3, 0, 0), At(0, 14, 59, 59), At(0, 15, 0, 0), At(0, 15, 2, 0),
      At(0, 15, 6, 0), At(0, 23, 0, 0), At(0, 23, 0, 1), At(1, 4, 10, 0),
      At(1, 9, 0, 0) }

(***************************************************************************)
(* The store-hours specification: one call of is_store_open on inputs      *)
(* drawn from the sets above.                                              *)
(***************************************************************************)
HoursInit ==
    /\ sh_json \in StoreHoursInputs
    /\ sh_tz \in ZoneNames
    /\ sh_clock \in ClockValues
    /\ sh_ret = "pending"

CallIsStoreOpen ==
    /\ sh_ret = "pending"
    /\ sh_ret' = IsStoreOpen(sh_json, sh_tz, sh_clock)
    /\ UNCHANGED <<sh_json, sh_tz, sh_clock>>



(***************************************************************************)
(* _process_license: the screenshot selector, the image classifier and     *)
(* the status reducer.                                                     *)
(***************************************************************************)
\* ERROR_MESSAGES, each phrase named by its rank in sorted order.
ErrorMessages == 1..9

\* A mutant of FilterLimit: one more URL inspected.
FilterLimitEleven == 10 + 1

FilterLimit == 10       \* file_urls[:10]
\* A mutant of SampleLimit: one more image classified.
SampleLimitFive == 4 + 1

SampleLimit == 4        \* todays_urls[:4]
BlackThreshold == 3     \* black_screens >= 3
StuckThreshold == 5     \* error_count >= 5

\* A screenshot URL: the date and the time of day its filename encodes (the
\* date as a day of the model's week) and what the classifier meets when it
\* fetches it: "loadfail" (load_image_from_url returns None), "black",
\* "ocrfail" (image_to_string raises), or "text" with the set of phrases
\* that occur in the OCR text.
Url(date, time, img, phrases) ==
    [date |-> date, time |-> time, img |-> img, phrases |-> phrases]

\* The filename, as the pair its lexicographic order compares.
FileName(url) == <<url.date, url.time>>

NameLeq(a, b) == a[1] < b[1] \/ (a[1] = b[1] /\ a[2] <= b[2])

Min(a, b) == IF a <= b THEN a ELSE b

\* seq[:n]
Prefix(seq, n) == SubSeq(seq, 1, Min(n, Len(seq)))

\* current_time.strftime("%Y%m%d"), as a day of the model's week.
CurrentDate(tz, clock) == LocalNow(tz, clock) \div DaySeconds

RECURSIVE SelectDate(_, _)
SelectDate(urls, date) ==
    IF urls = <<>> THEN <<>>
    ELSE IF Head(urls).date = date
    THEN <<Head(urls)>> \o SelectDate(Tail(urls), date)
    ELSE SelectDate(Tail(urls), date)

\* filter_screenshots_for_today
FilterScreenshotsForToday(file_urls, timezone_name, clock) ==
    IF timezone_name \notin KnownZones THEN <<>>
    ELSE SelectDate(Prefix(file_urls, FilterLimit),
                    CurrentDate(timezone_name, clock))

\* A mutant of LatestUrl: the first URL of today's.
LatestUrlFirst(todays_urls) == todays_urls[1]

\* max(todays_urls, key=filename): the first URL with the greatest filename.
LatestUrl(todays_urls) ==
    LET i == CHOOSE k \in 1..Len(todays_urls) :
                /\ \A j \in 1..Len(todays_urls) :
                      NameLeq(FileName(todays_urls[j]), FileName(todays_urls[k]))
                /\ \A j \in 1..(k - 1) :
                      FileName(todays_urls[j]) # FileName(todays_urls[k])
    IN todays_urls[i]

\* The phrases of a set in ascending order.
RECURSIVE SortedSeq(_)
SortedSeq(S) ==
    IF S = {} THEN <<>>
    ELSE LET m == CHOOSE x \in S : \A y \in S : x <= y
         IN <<m>> \o SortedSeq(S \ {m})

\* A mutant of ClassifyStep: an image that does not load counted as black.
ClassifyStepFailBlack(acc, url) ==
    IF url.img \in {"loadfail", "black"}
    THEN [acc EXCEPT !.black_screens = @ + 1]
    ELSE IF url.img = "ocrfail" THEN acc
    ELSE [acc EXCEPT
            !.detected_errors = @ \o SortedSeq(url.phrases \cap ErrorMessages),
            !.error_screenshot_url =
                IF @ = <<>> /\ url.phrases \cap ErrorMessages # {}
                THEN <<url>> ELSE @]

\* One iteration of the loop over todays_urls[:4], on the accumulator
\* [black_screens, detected_errors, error_screenshot_url].
ClassifyStep(acc, url) ==
    IF url.img = "loadfail" THEN acc
    ELSE IF url.img = "black"
    THEN [acc EXCEPT !.black_screens = @ + 1]
    ELSE IF url.img = "ocrfail" THEN acc
    ELSE [acc EXCEPT
            !.detected_errors = @ \o SortedSeq(url.phrases \cap ErrorMessages),
            !.error_screenshot_url =
                IF @ = <<>> /\ url.phrases \cap ErrorMessages # {}
                THEN <<url>> ELSE @]

RECURSIVE ClassifyAll(_, _)
ClassifyAll(acc, urls) ==
    IF urls = <<>> THEN acc
    ELSE ClassifyAll(ClassifyStep(acc, Head(urls)), Tail(urls))

Classify(todays_urls) ==
    ClassifyAll([black_screens |-> 0, detected_errors |-> <<>>,
                 error_screenshot_url |-> <<>>],
                Prefix(todays_urls, SampleLimit))

\* Mutants of ScreenshotStatus: the error thresholds tested before the
\* black-screen threshold, and the STUCK_ON_ERROR threshold made strict.
ScreenshotStatusErrorsFirst(black_screens, error_count) ==
    IF error_count >= StuckThreshold THEN "STUCK_ON_ERROR"
    ELSE IF black_screens >= BlackThreshold THEN "OPEN_HOURS_BLACK_SCREEN"
    ELSE IF error_count >= 1 THEN "ERROR_DISPLAYED"
    ELSE "OK"

ScreenshotStatusStrict(black_screens, error_count) ==
    IF black_screens >= BlackThreshold THEN "OPEN_HOURS_BLACK_SCREEN"
    ELSE IF error_count > StuckThreshold THEN "STUCK_ON_ERROR"
    ELSE IF error_count >= 1 THEN "ERROR_DISPLAYED"
    ELSE "OK"

\* Lines 563-571: the final screenshot status.
ScreenshotStatus(black_screens, error_count) ==
    IF black_screens >= BlackThreshold THEN "OPEN_HOURS_BLACK_SCREEN"
    ELSE IF error_count >= StuckThreshold THEN "STUCK_ON_ERROR"
    ELSE IF error_count >= 1 THEN "ERROR_DISPLAYED"
    ELSE "OK"

Range(seq) == {seq[i] : i \in 1..Len(seq)}

\* _extract_timestamp_from_url, for a filename of 14 digits.
ExtractTimestamp(url) == <<url.date, url.time>>

\* The row handed to ws.append_row (the columns copied from license_data
\* other than the key, and the last-checked time, are left out).  url and
\* ts are <<>> for the empty string; errors is the error text as the
\* sequence of the phrases that ", " joins.
Row(key, url, ts, status, errors) ==
    [key |-> key, url |-> url, ts |-> ts, status |-> status, errors |-> errors]

\* A mutant of NoScreenshotsRow: the status of a healthy device.
NoScreenshotsRowOk(lic) == Row(lic.licenseKey, <<>>, <<>>, "OK", <<>>)

\* Lines 434-498: the row of a device without a screenshot of today.
NoScreenshotsRow(lic) == Row(lic.licenseKey, <<>>, <<>>, "NO_SCREENSHOTS", <<>>)

\* api.get_screenshots(license_id): None without a license id.
GetScreenshots(license_id, resp) ==
    IF license_id = "" THEN [t |-> "none"] ELSE resp

\* A mutant of ErrorText: the phrases as detected, repeated ones kept.
ErrorTextAll(detected_errors) == detected_errors

\* ", ".join(sorted(set(detected_errors)))
ErrorText(detected_errors) == SortedSeq(Range(detected_errors))

\* Lines 500-588: the row of a license with screenshots of today.
ReducedRow(lic, todays_urls) ==
    LET latest_url == LatestUrl(todays_urls)
        acc == Classify(todays_urls)
        error_count == Len(acc.detected_errors)
        show_error == error_count >= 1 /\ acc.error_screenshot_url # <<>>
        display_url == IF show_error THEN acc.error_screenshot_url[1]
                       ELSE latest_url
    IN Row(lic.licenseKey, <<display_url>>, ExtractTimestamp(display_url),
           ScreenshotStatus(acc.black_screens, error_count),
           ErrorText(acc.detected_errors))

\* _process_license: [k |-> "raise"] (an exception leaves the function),
\* [k |-> "closed"] (the early return, no row) or [k |-> "row", row |-> r]
\* (r appended, row_counter + 1 returned).
ProcessLicense(lic, resp, clock) ==
    LET timezone_name == IF lic.timezoneName = "" THEN "UTC" ELSE lic.timezoneName
        open == IsStoreOpen(lic.storeHours, timezone_name, clock)
        screenshots_data == GetScreenshots(lic.licenseId, resp)
    IN IF open = "Raise" THEN [k |-> "raise"]
       ELSE IF open = "False" THEN [k |-> "closed"]
       ELSE IF screenshots_data.t \in {"none", "emptydict"}
       THEN [k |-> "row", row |-> NoScreenshotsRow(lic)]
       ELSE IF screenshots_data.t # "dict" THEN [k |-> "raise"]
       ELSE LET file_urls == IF screenshots_data.hasFiles
                             THEN screenshots_data.files ELSE <<>>
                todays_urls == FilterScreenshotsForToday(file_urls,
                                                         timezone_name, clock)
            IN IF file_urls = <<>> \/ todays_urls = <<>>
               THEN [k |-> "row", row |-> NoScreenshotsRow(lic)]
               ELSE [k |-> "row", row |-> ReducedRow(lic, todays_urls)]

(***************************************************************************)
(* The inputs of the per-license specification.                            *)
(***************************************************************************)
\* A schedule that is open at every instant, one that is disabled, and one
\* whose period makes the parser raise.
OpenAllDay ==
    [t |-> "json", v |-> [t |-> "list", items |->
        <<DayEntry("absent", "absent",
            <<NewPeriod(HourData({}, 0, 0, 0),
                        HourData(FullKeys, 23, 59, 59))>>)>>]]

ClosedAllDay ==
    [t |-> "json", v |-> [t |-> "list", items |->
        <<DayEntry("absent", "false",
            <<NewPeriod(HourData({}, 0, 0, 0),
                        HourData(FullKeys, 23, 59, 59))>>)>>]]

BadHours ==
    [t |-> "json", v |-> [t |-> "list", items |->
        <<DayEntry("absent", "absent",
            <<NewPeriod(HourData(FullKeys, 25, 0, 0),
                        HourData(FullKeys, 3, 0, 0))>>)>>]]

License(key, id, tz, hours) ==
    [licenseKey |-> key, licenseId |-> id, timezoneName |-> tz,
     storeHours |-> hours]

\* Day 1 is the date of the calls in UTC and day 0 the day before.
UrlValues ==
    { Url(1, 1, "black", {}),
      Url(1, 2, "text", {1, 2, 3, 4, 5}),
      Url(1, 3, "text", {3}),
      Url(1, 4, "text", {}),
      Url(1, 5, "loadfail", {}),
      Url(1, 6, "ocrfail", {}),
      Url(0, 7, "text", {3}) }

ResponseValues ==
    { [t |-> "none"], [t |-> "text"], [t |-> "emptydict"],
      [t |-> "dict", hasFiles |-> FALSE, files |-> <<>>] }
    \cup { [t |-> "dict", hasFiles |-> TRUE, files |-> fs] :
             fs \in SeqsUpTo(UrlValues, MaxFiles) }

LicenseValues ==
    { License("K1", id, tz, hours) :
        id \in {"L1", ""}, tz \in {"UTC", "Mars/Phobos"},
        hours \in {OpenAllDay, ClosedAllDay, BadHours} }

\* The listings of the sampling specification: up to MaxSample URLs, of
\* today but for one, for a device that is open.
SampleUrls ==
    { Url(1, 1, "black", {}),
      Url(1, 2, "text", {1, 2, 3}),
      Url(1, 3, "text", {3}),
      Url(1, 5, "loadfail", {}),
      Url(1, 6, "ocrfail", {3}),
      Url(0, 7, "black", {}) }

SampleInit ==
    /\ pl_lic = License("K1", "L1", "UTC", OpenAllDay)
    /\ pl_resp \in { [t |-> "dict", hasFiles |-> TRUE, files |-> fs] :
                        fs \in SeqsUpTo(SampleUrls, MaxSample) }
    /\ pl_clock = At(1, 12, 0, 0)
    /\ pl_out = [k |-> "pending"]

(***************************************************************************)
(* The per-license specification: one call of _process_license.            *)
(***************************************************************************)
LicenseInit ==
    /\ pl_lic \in LicenseValues
    /\ pl_resp \in ResponseValues
    /\ pl_clock = At(1, 12, 0, 0)
    /\ pl_out = [k |-> "pending"]

CallProcessLicense ==
    /\ pl_out.k = "pending"
    /\ pl_out' = ProcessLicense(pl_lic, pl_resp, pl_clock)
    /\ UNCHANGED <<pl_lic, pl_resp, pl_clock>>

(***************************************************************************)
(* run_screenshot_health: the page loop and the device loop.  All runs of  *)
(* the model fall on one monitoring date, so they share one worksheet.     *)
(***************************************************************************)
HeaderRow == Row("License Key", <<>>, <<>>, "Screenshot Status", <<>>)

\* sheets.ensure_headers(ws, headers): row 1 is overwritten unless it
\* already holds the headers.
EnsureHeaders(sheet, header) ==
    IF sheet = <<>> THEN <<header>>
    ELSE IF sheet[1] = header THEN sheet
    ELSE [sheet EXCEPT ![1] = header]

Max(a, b) == IF a >= b THEN a ELSE b

\* Lines 678-683: the licenses of a page, found at the top level or under
\* "message"; <<>> stands for None and for an empty list.
PageLicenses(data) ==
    IF data.shape = "top" THEN data.licenses
    ELSE IF data.shape = "message" THEN data.licenses
    ELSE <<>>

\* The instant of the runs.
RunClock == At(1, 12, 0, 0)

RunKeys == {"K1", "K2"}

RunLicenses ==
    { License("K1", "L1", "UTC", OpenAllDay),
      License("K2", "L2", "UTC", OpenAllDay),
      License("K1", "L1", "UTC", ClosedAllDay),
      License("K2", "L2", "UTC", BadHours) }

RunResponses ==
    { [t |-> "none"], [t |-> "text"],
      [t |-> "dict", hasFiles |-> TRUE, files |-> <<Url(1, 4, "text", {})>>] }

PageResponses ==
    { [t |-> "none"], [t |-> "text"],
      [t |-> "dict", shape |-> "neither", licenses |-> <<>>] }
    \cup { [t |-> "dict", shape |-> sh, licenses |-> ls] :
             sh \in {"top", "message"},
             ls \in SeqsUpTo(RunLicenses, MaxPageLen) }

\* What the calls of a run return: is_store_open per device, and
\* _process_license per device and listing response.
RunOpen ==
    [lic \in RunLicenses |->
        IsStoreOpen(lic.storeHours, lic.timezoneName, RunClock)]

RunOutcome ==
    [lic \in RunLicenses, resp \in RunResponses |->
        ProcessLicense(lic, resp, RunClock)]

RunInit ==
    /\ rs_pc = "idle"
    /\ rs_page = 1
    /\ rs_queue = <<>>
    /\ rs_row_counter = 1
    /\ rs_sheet = <<>>
    /\ rs_runs = 0
    /\ rs_opened = [k \in RunKeys |-> 0]
    /\ rs_requests = <<>>
    /\ rs_taken = 0
    /\ rs_last = "none"

\* Lines 611-639: the worksheet of the day is fetched or created, its
\* header ensured, and row_counter set after the existing rows.
StartRun ==
    /\ rs_pc = "idle"
    /\ rs_runs < MaxRuns
    /\ rs_sheet' = EnsureHeaders(rs_sheet, HeaderRow)
    /\ rs_row_counter' = Max(Len(rs_sheet'), 1)
    /\ rs_page' = 1
    /\ rs_pc' = "fetch"
    /\ rs_requests' = <<>>
    /\ rs_taken' = 0
    /\ rs_last' = "none"
    /\ UNCHANGED <<rs_queue, rs_runs, rs_opened>>

\* Lines 641-689 and 703-706: one request of a page; the loop is left, and
\* the run ends, when the page brings no licenses.
FetchPage ==
    /\ rs_pc = "fetch"
    /\ rs_requests' = Append(rs_requests, rs_page)
    /\ \E data \in PageResponses :
         LET licenses == IF data.t = "dict" THEN PageLicenses(data) ELSE <<>>
         IN IF licenses = <<>>
            THEN /\ rs_pc' = "idle"
                 /\ rs_runs' = rs_runs + 1
                 /\ UNCHANGED <<rs_queue, rs_taken>>
            ELSE /\ Len(rs_requests) < MaxPages
                 /\ Len(rs_sheet) - 1 + Len(licenses) <= MaxRows
                 /\ rs_queue' = licenses
                 /\ rs_pc' = "process"
                 /\ rs_taken' = rs_taken + 1
                 /\ UNCHANGED rs_runs
    /\ UNCHANGED <<rs_page, rs_row_counter, rs_sheet, rs_opened, rs_last>>

\* A mutant of DeviceEffect: row_counter advanced for every device.
DeviceEffectCountAll(lic, out) ==
    /\ IF out.k = "row"
       THEN rs_sheet' = Append(rs_sheet, out.row)
       ELSE UNCHANGED rs_sheet
    /\ rs_row_counter' = rs_row_counter + 1
    /\ rs_opened' =
         IF RunOpen[lic] = "True"
         THEN [rs_opened EXCEPT ![lic.licenseKey] = Min(@ + 1, MaxRows + 1)]
         ELSE rs_opened
    /\ rs_last' = out.k

\* The effect of one call of _process_license on the worksheet and on
\* row_counter, with what the run log records of it.
DeviceEffect(lic, out) ==
    /\ IF out.k = "row"
       THEN /\ rs_sheet' = Append(rs_sheet, out.row)
            /\ rs_row_counter' = rs_row_counter + 1
       ELSE UNCHANGED <<rs_sheet, rs_row_counter>>
    /\ rs_opened' =
         IF RunOpen[lic] = "True"
         THEN [rs_opened EXCEPT ![lic.licenseKey] = Min(@ + 1, MaxRows + 1)]
         ELSE rs_opened
    /\ rs_last' = out.k

\* A page counter that skips a page.
NextPageSkip(page) == page + 2

\* page += 1
NextPage(page) == page + 1

\* The device loop without its try/except: the exception of a device ends
\* the run.
ProcessNextLicenseUncaught ==
    /\ rs_pc = "process"
    /\ \E resp \in RunResponses :
         LET lic == Head(rs_queue)
             out == RunOutcome[lic, resp]
         IN /\ DeviceEffect(lic, out)
            /\ IF out.k = "raise"
               THEN /\ rs_queue' = <<>>
                    /\ rs_pc' = "idle"
                    /\ rs_runs' = rs_runs + 1
                    /\ UNCHANGED rs_page
               ELSE /\ rs_queue' = Tail(rs_queue)
                    /\ IF Tail(rs_queue) = <<>>
                       THEN rs_page' = NextPage(rs_page) /\ rs_pc' = "fetch"
                       ELSE UNCHANGED <<rs_page, rs_pc>>
                    /\ UNCHANGED rs_runs
    /\ UNCHANGED <<rs_requests, rs_taken>>

\* Lines 691-702: one iteration of the device loop, the exception of
\* _process_license caught and logged; after the last license of the page,
\* page += 1.
ProcessNextLicense ==
    /\ rs_pc = "process"
    /\ \E resp \in RunResponses :
         LET lic == Head(rs_queue)
             out == RunOutcome[lic, resp]
         IN DeviceEffect(lic, out)
    /\ rs_queue' = Tail(rs_queue)
    /\ IF Tail(rs_queue) = <<>>
       THEN rs_page' = NextPage(rs_page) /\ rs_pc' = "fetch"
       ELSE UNCHANGED <<rs_page, rs_pc>>
    /\ UNCHANGED <<rs_runs, rs_requests, rs_taken>>

(***************************************************************************)
(* _fetch_zone_licenses: the page loop of the version-by-zone check.       *)
(***************************************************************************)
\* A license of a zone listing, with the versions the check compares.
ZoneLicense(id, server, ui) ==
    [licenseId |-> id, serverVersion |-> server, uiVersion |-> ui]

\* The defaults of EXPECTED_SERVER_VERSION and EXPECTED_UI_VERSION.
EXPECTED_SERVER_VERSION == "2.9.4"

EXPECTED_UI_VERSION == "3.0.47"

\* The licenses of the listings: one with both versions as expected, one
\* with another server version, one with another UI version, one without
\* licenseId and without uiVersion ("" is what str(... or "") makes of a
\* missing value).
ZoneLicenses ==
    {ZoneLicense("L1", "2.9.4", "3.0.47"), ZoneLicense("L2", "2.9.3", "3.0.47"),
     ZoneLicense("L3", "2.9.4", "3.0.46"), ZoneLicense("", "2.9.4", "")}

\* What api.get_licenses may return: None, a body that is not JSON (text),
\* a dict with or without the key "licenses".
ZonePageResponses ==
    { [t |-> "none"], [t |-> "text"],
      [t |-> "dict", shape |-> "neither", licenses |-> <<>>] }
    \cup { [t |-> "dict", shape |-> "top", licenses |-> ls] :
             ls \in SeqsUpTo(ZoneLicenses, MaxPageLen) }

ZoneFetchIdle ==
    /\ zf_pc = "idle"
    /\ zf_page = 1
    /\ zf_licenses = <<>>
    /\ zf_requests = <<>>
    /\ zf_taken = 0

\* Lines 35-39: the state at the top of the loop, before the first request.
ZoneFetchInit ==
    /\ zf_pc = "fetch"
    /\ zf_page = 1
    /\ zf_licenses = <<>>
    /\ zf_requests = <<>>
    /\ zf_taken = 0

\* Lines 41-75: one iteration of the loop.  data.get on a value that is not
\* a dict raises out of the function.
ZoneFetchPage ==
    /\ zf_pc = "fetch"
    /\ zf_requests' = Append(zf_requests, zf_page)
    /\ \E data \in ZonePageResponses :
         IF data.t = "none"
         THEN zf_pc' = "done" /\ UNCHANGED <<zf_page, zf_licenses, zf_taken>>
         ELSE IF data.t # "dict"
         THEN zf_pc' = "raised" /\ UNCHANGED <<zf_page, zf_licenses, zf_taken>>
         ELSE LET page_licenses ==
                      IF data.shape = "top" THEN data.licenses ELSE <<>>
              IN IF page_licenses = <<>>
                 THEN /\ zf_pc' = "done"
                      /\ UNCHANGED <<zf_page, zf_licenses, zf_taken>>
                 ELSE /\ Len(zf_requests) < MaxPages
                      /\ zf_licenses' = zf_licenses \o page_licenses
                      /\ zf_page' = zf_page + 1
                      /\ zf_taken' = zf_taken + 1
                      /\ UNCHANGED zf_pc

(***************************************************************************)
(* _sync_zone_sheet and the SheetsClient helpers it calls.  A cell of the  *)
(* ID column is a sequence of characters, " " a blank and any other value  *)
(* a run of non-blank characters.  A row is its ID cell with the versions  *)
(* and status cells; the URL cell is a function of the ID and is left out. *)
(***************************************************************************)
RECURSIVE LStrip(_)
LStrip(s) == IF s # <<>> /\ Head(s) = " " THEN LStrip(Tail(s)) ELSE s

RECURSIVE RStrip(_)
RStrip(s) ==
    IF s # <<>> /\ s[Len(s)] = " " THEN RStrip(SubSeq(s, 1, Len(s) - 1)) ELSE s

\* str.strip()
Strip(s) == RStrip(LStrip(s))

ZoneRow(id, versions, status) ==
    [id |-> id, versions |-> versions, status |-> status]

ZoneHeaders == ZoneRow(<<"License IDs">>, "Versions", "Status")

\* One entry of mismatch_results, as _check_license_versions returns it.
Result(license_id, versions, status, is_mismatch) ==
    [license_id |-> license_id, versions |-> versions, status |-> status,
     is_mismatch |-> is_mismatch]

\* ws.find(str(value), in_column=1): the first row whose cell equals the
\* value, 0 for None; a lookup that raises is None as well.
FindRowByValue(sheet, value, fails) ==
    LET hits == {i \in 1..Len(sheet) : sheet[i].id = value}
    IN IF fails \/ hits = {} THEN 0
       ELSE CHOOSE i \in hits : \A j \in hits : i <= j

NumberChars == {"0", "1", "2", "3", "4", "5", "6", "7", "8", "9"}

RECURSIVE StripZeros(_)
StripZeros(text) ==
    IF Len(text) > 1 /\ Head(text) = "0" THEN StripZeros(Tail(text)) ELSE text

\* What a cell shows of a text entered with value_input_option=
\* "USER_ENTERED": the sheet parses it as if typed, so a text of digits
\* becomes a number and is shown without its leading zeros; other text
\* is kept.
EnteredText(text) ==
    IF text # <<>> /\ \A i \in 1..Len(text) : text[i] \in NumberChars
    THEN StripZeros(text)
    ELSE text

\* ws.append_row(values, value_input_option="USER_ENTERED"), line 147:
\* the row as the sheet holds it.
UserEntered(values) == [values EXCEPT !.id = EnteredText(@)]

\* upsert_row, lines 130-147: ws.update of the row found stores the values
\* as given, append_row stores them as entered.
UpsertRow(sheet, key_value, values, fails) ==
    LET row_index == FindRowByValue(sheet, key_value, fails)
    IN IF row_index # 0 THEN [sheet EXCEPT ![row_index] = values]
       ELSE Append(sheet, UserEntered(values))

\* Lines 177-187: the upserts of the mismatching entries, in order.
RECURSIVE UpsertAll(_, _, _, _)
UpsertAll(sheet, results, i, fails) ==
    IF i > Len(results) THEN sheet
    ELSE LET item == results[i]
         IN IF ~item.is_mismatch THEN UpsertAll(sheet, results, i + 1, fails)
            ELSE UpsertAll(
                   UpsertRow(sheet, item.license_id,
                             ZoneRow(item.license_id, item.versions, item.status),
                             i \in fails),
                   results, i + 1, fails)

MismatchedIds(results) ==
    {results[i].license_id : i \in {j \in 1..Len(results) : results[j].is_mismatch}}

\* Lines 190-198.
RowsToDelete(sheet, mismatched_ids) ==
    {idx \in 2..Len(sheet) :
        /\ Strip(sheet[idx].id) # <<>>
        /\ Strip(sheet[idx].id) \notin mismatched_ids}

\* ws.delete_row(index); a row below the last one with values is an empty
\* row of the grid.
DeleteRow(sheet, index) ==
    IF index > Len(sheet) THEN sheet
    ELSE SubSeq(sheet, 1, index - 1) \o SubSeq(sheet, index + 1, Len(sheet))

\* sorted(rows_to_delete), which deletes the stale rows from the top down.
RECURSIVE DeleteOrderAscending(_)
DeleteOrderAscending(rows) ==
    IF rows = {} THEN <<>>
    ELSE LET lo == CHOOSE i \in rows : \A j \in rows : i <= j
         IN <<lo>> \o DeleteOrderAscending(rows \ {lo})

\* sorted(rows_to_delete, reverse=True)
RECURSIVE DeleteOrder(_)
DeleteOrder(rows) ==
    IF rows = {} THEN <<>>
    ELSE LET hi == CHOOSE i \in rows : \A j \in rows : i >= j
         IN <<hi>> \o DeleteOrder(rows \ {hi})

RECURSIVE DeleteRows(_, _)
DeleteRows(sheet, order) ==
    IF order = <<>> THEN sheet
    ELSE DeleteRows(DeleteRow(sheet, Head(order)), Tail(order))

SyncZoneSheet(sheet, mismatch_results, fails) ==
    LET ws == EnsureHeaders(sheet, ZoneHeaders)
        upserted == UpsertAll(ws, mismatch_results, 1, fails)
        rows_to_delete == RowsToDelete(upserted, MismatchedIds(mismatch_results))
    IN DeleteRows(upserted, DeleteOrder(rows_to_delete))

\* Rows a zone worksheet may hold before a sync: rows of earlier runs, a
\* row whose ID was padded by hand, a row without an ID.
PriorRows ==
    { ZoneRow(<<"L1">>, "v0", "sent"), ZoneRow(<<"L2">>, "v0", "sent"),
      ZoneRow(<<"L3">>, "v0", "failed"), ZoneRow(<<"L1", " ">>, "v0", "sent"),
      ZoneRow(<<>>, "v0", "sent") }

PriorSheets ==
    {<<>>} \cup {<<ZoneHeaders>> \o rows : rows \in SeqsUpTo(PriorRows, MaxPrior)}

\* license_id is str(license_data.get("licenseId", "")): <<>> is the ID of
\* a license whose listing entry has none.
ResultValues ==
    {Result(id, "v1", "sent", m) : id \in {<<"L1">>, <<"L2">>, <<>>}, m \in BOOLEAN}

SyncInit ==
    /\ zs_pc = "ready"
    /\ zs_prior \in PriorSheets
    /\ zs_sheet = zs_prior
    /\ zs_results = <<>>
    /\ zs_fails = {}

CallSyncZoneSheet ==
    /\ zs_pc = "ready"
    /\ \E results \in SeqsUpTo(ResultValues, MaxResults) :
         \E fails \in SUBSET {i \in 1..Len(results) : results[i].is_mismatch} :
            /\ zs_results' = results
            /\ zs_fails' = fails
            /\ zs_sheet' = SyncZoneSheet(zs_sheet, results, fails)
    /\ zs_pc' = "done"
    /\ UNCHANGED zs_prior

(***************************************************************************)
(* Calls of SheetsClient.upsert_row in a row on one worksheet.             *)
(***************************************************************************)
\* key_value of the calls: two license IDs, a key of digits with a leading
\* zero, the text of the header cell.
UpsertKeys == {<<"L1">>, <<"L2">>, <<"0", "7">>, <<"License IDs">>}

\* The rows a worksheet may hold before the calls, one row for a key.
UpsertRowsBefore ==
    {ZoneRow(<<"L1">>, "v0", "sent"), ZoneRow(<<"L3">>, "v0", "sent"),
     ZoneRow(<<"0", "7">>, "v0", "sent")}

UpsertSheetsBefore ==
    {<<>>}
    \cup {<<ZoneHeaders>> \o rows :
            rows \in {r \in SeqsUpTo(UpsertRowsBefore, 2) :
                        \A i, j \in 1..Len(r) : r[i] = r[j] => i = j}}

UpsertInit ==
    /\ us_sheet \in UpsertSheetsBefore
    /\ us_before = us_sheet
    /\ us_calls = <<>>

\* One call, as _sync_zone_sheet makes it (lines 180-187): the key is the
\* first of the values.
CallUpsertRow ==
    /\ Len(us_calls) < MaxUpserts
    /\ \E key_value \in UpsertKeys : \E failed \in BOOLEAN :
         /\ us_sheet' = UpsertRow(us_sheet, key_value,
                                  ZoneRow(key_value, "v1", "sent"), failed)
         /\ us_calls' = Append(us_calls, [key_value |-> key_value, failed |-> failed])
    /\ us_before' = us_sheet

(***************************************************************************)
(* run_version_zone_check: for each zone the listing is fetched, every     *)
(* license of it is checked, a restart is asked for each mismatch, and the *)
(* zone worksheet is synced.  restart_player is recorded by its calls.     *)
(***************************************************************************)
ZONES == <<"Eastern", "Central", "Mountain", "Pacific">>

\* The ID cell that the text of a license ID makes.
IdCell(license_id) == IF license_id = "" THEN <<>> ELSE <<license_id>>

\* SocketClient.restart_player, socket_client.py lines 62-71: without a
\* license ID nothing is emitted and False returned, else the result is
\* that of _emit.
RestartPlayer(license_id, emit_ok) ==
    IF license_id = ""
    THEN [license_id |-> license_id, emitted |-> FALSE, returned |-> FALSE]
    ELSE [license_id |-> license_id, emitted |-> TRUE, returned |-> emit_ok]

\* A mutant of VersionsMatch: the server version alone decides.
ServerVersionMatches(license_data) ==
    license_data.serverVersion = EXPECTED_SERVER_VERSION

\* Lines 119-122.
VersionsMatch(license_data) ==
    /\ license_data.serverVersion = EXPECTED_SERVER_VERSION
    /\ license_data.uiVersion = EXPECTED_UI_VERSION

VersionsStr(license_data) ==
    <<"Server: ", license_data.serverVersion, ", UI: ", license_data.uiVersion>>

\* _check_license_versions, lines 102-152, restart_sent being what
\* restart_player has returned for a mismatch.
CheckLicenseVersions(license_data, restart_sent) ==
    IF VersionsMatch(license_data)
    THEN Result(IdCell(license_data.licenseId), VersionsStr(license_data),
                "OK", FALSE)
    ELSE Result(IdCell(license_data.licenseId), VersionsStr(license_data),
                IF restart_sent
                THEN "Version mismatch - player restart signal sent"
                ELSE "Version mismatch - FAILED to send restart signal",
                TRUE)

\* The worksheet of a zone before the check: none yet, one row of an
\* earlier run, or rows of earlier runs with a row whose ID cell is blank
\* and one whose ID cell is empty.
ZoneSheetsBefore ==
    { <<>>,
      <<ZoneHeaders, ZoneRow(<<"L2">>, "v0", "sent")>>,
      <<ZoneHeaders, ZoneRow(<<"L1">>, "v0", "sent"), ZoneRow(<<" ">>, "v0", "sent"),
        ZoneRow(<<"L5">>, "v0", "failed"), ZoneRow(<<>>, "v0", "failed")>> }

\* The state at the top of the body of the zone loop.
ZoneStart ==
    /\ zc_pc' = "fetch"
    /\ zc_queue' = <<>>
    /\ zc_restarts' = <<>>
    /\ zf_pc' = "fetch"
    /\ zf_page' = 1
    /\ zf_licenses' = <<>>
    /\ zf_requests' = <<>>
    /\ zf_taken' = 0
    /\ zs_pc' = "ready"
    /\ zs_prior' \in ZoneSheetsBefore
    /\ zs_sheet' = zs_prior'
    /\ zs_results' = <<>>
    /\ zs_fails' = {}

ZoneCheckInit ==
    /\ zc_pc = "fetch"
    /\ zc_zone = 1
    /\ zc_queue = <<>>
    /\ zc_restarts = <<>>
    /\ ZoneFetchInit
    /\ zs_pc = "ready"
    /\ zs_prior \in ZoneSheetsBefore
    /\ zs_sheet = zs_prior
    /\ zs_results = <<>>
    /\ zs_fails = {}

\* A mutant of ZoneCheckFetch: a zone without licenses is left as it is.
ZoneCheckFetchSkipEmpty ==
    /\ zc_pc = "fetch"
    /\ ZoneFetchPage
    /\ Len(zf_licenses') <= MaxZoneLicenses
    /\ zc_pc' = IF zf_pc' = "raised" THEN "failed"
                ELSE IF zf_pc' = "done"
                THEN (IF zf_licenses' = <<>> THEN "synced" ELSE "check")
                ELSE "fetch"
    /\ zc_queue' = IF zf_pc' = "done" THEN zf_licenses' ELSE zc_queue
    /\ UNCHANGED <<zc_zone, zc_restarts, syncVars>>

\* Line 227 with lines 229-233: a page of _fetch_zone_licenses; what it
\* raises ends the zone in the except clause of line 243; a listing
\* without licenses goes to the sync with no results.
ZoneCheckFetch ==
    /\ zc_pc = "fetch"
    /\ ZoneFetchPage
    /\ Len(zf_licenses') <= MaxZoneLicenses
    /\ zc_pc' = IF zf_pc' = "raised" THEN "failed"
                ELSE IF zf_pc' = "done"
                THEN (IF zf_licenses' = <<>> THEN "sync" ELSE "check")
                ELSE "fetch"
    /\ zc_queue' = IF zf_pc' = "done" THEN zf_licenses' ELSE zc_queue
    /\ UNCHANGED <<zc_zone, zc_restarts, syncVars>>

\* Lines 235-238: one license of the zone.
CheckLicense ==
    /\ zc_pc = "check"
    /\ zc_queue # <<>>
    /\ LET lic == Head(zc_queue)
       IN IF VersionsMatch(lic)
          THEN /\ zs_results' = Append(zs_results, CheckLicenseVersions(lic, FALSE))
               /\ UNCHANGED zc_restarts
          ELSE \E emit_ok \in BOOLEAN :
                 LET call == RestartPlayer(lic.licenseId, emit_ok)
                 IN /\ zc_restarts' = Append(zc_restarts, call)
                    /\ zs_results' =
                         Append(zs_results, CheckLicenseVersions(lic, call.returned))
    /\ zc_queue' = Tail(zc_queue)
    /\ zc_pc' = IF Tail(zc_queue) = <<>> THEN "sync" ELSE "check"
    /\ UNCHANGED <<zc_zone, zoneFetchVars, zs_pc, zs_prior, zs_fails, zs_sheet>>

\* Lines 233 and 240: _sync_zone_sheet with the results of the zone.
SyncZone ==
    /\ zc_pc = "sync"
    /\ \E fails \in SUBSET {i \in 1..Len(zs_results) : zs_results[i].is_mismatch} :
         /\ zs_fails' = fails
         /\ zs_sheet' = SyncZoneSheet(zs_sheet, zs_results, fails)
    /\ zs_pc' = "done"
    /\ zc_pc' = "synced"
    /\ UNCHANGED <<zc_zone, zc_queue, zc_restarts, zoneFetchVars, zs_prior, zs_results>>

\* Line 225: the loop goes on to the next zone, after the sync or after
\* the except clause, and ends after the last.
NextZone ==
    /\ zc_pc \in {"synced", "failed"}
    /\ IF zc_zone < Len(ZONES)
       THEN /\ zc_zone' = zc_zone + 1
            /\ ZoneStart
       ELSE /\ zc_pc' = "over"
            /\ UNCHANGED <<zc_zone, zc_queue, zc_restarts, zoneFetchVars, syncVars>>

(***************************************************************************)
(* start_scheduler and register_jobs.  The jobs are interval jobs of an    *)
(* APScheduler BackgroundScheduler created and registered with its         *)
(* defaults: a firing is handed to a worker thread unless max_instances    *)
(* runs of the job are executing, in which case it is skipped; what a job  *)
(* function raises is caught and logged in the worker.  The main thread    *)
(* sleeps until it is interrupted.                                         *)
(***************************************************************************)
JobIds ==
    {"screenshot_health", "version_zone_check", "version_sheet_check",
     "anydesk_check"}

\* register_jobs: the AnyDesk job only on an AnyDesk agent.
RegisteredJobs(is_anydesk_agent) ==
    IF is_anydesk_agent THEN JobIds ELSE JobIds \ {"anydesk_check"}

\* A scheduler that lets a second run of a job start beside the first.
MaxInstancesTwo == 1 + 1

\* add_job is called without max_instances: the scheduler's default.
MaxInstances == 1

SchedInit ==
    /\ sc_state = "running"
    /\ sc_agent \in BOOLEAN
    /\ sc_running = [j \in JobIds |-> 0]
    /\ sc_fired = [j \in JobIds |-> 0]
    /\ sc_last = [j \in JobIds |-> "none"]
    /\ sc_failures = [j \in JobIds |-> 0]

\* The interval of job j fires.
Fire(j) ==
    /\ sc_state = "running"
    /\ j \in RegisteredJobs(sc_agent)
    /\ sc_fired[j] < MaxFires
    /\ sc_fired' = [sc_fired EXCEPT ![j] = @ + 1]
    /\ IF sc_running[j] < MaxInstances
       THEN /\ sc_running' = [sc_running EXCEPT ![j] = @ + 1]
            /\ sc_last' = [sc_last EXCEPT ![j] = "started"]
       ELSE /\ sc_last' = [sc_last EXCEPT ![j] = "skipped"]
            /\ UNCHANGED sc_running
    /\ UNCHANGED <<sc_state, sc_agent, sc_failures>>

\* A scheduler in which the exception of a job function ends the process.
FinishUncaught(j) ==
    /\ sc_state = "running"
    /\ sc_running[j] > 0
    /\ sc_running' = [sc_running EXCEPT ![j] = @ - 1]
    /\ \E outcome \in {"ok", "failed"} :
         /\ sc_last' = [sc_last EXCEPT ![j] = outcome]
         /\ sc_state' = IF outcome = "failed" THEN "crashed" ELSE sc_state
         /\ sc_failures' =
              IF outcome = "failed" THEN [sc_failures EXCEPT ![j] = @ + 1]
              ELSE sc_failures
    /\ UNCHANGED <<sc_agent, sc_fired>>

\* A run of job j ends: the job function returns, or it raises (a client
\* that cannot be constructed, an error of the API or of the sheet that the
\* check does not catch).
Finish(j) ==
    /\ sc_state = "running"
    /\ sc_running[j] > 0
    /\ sc_running' = [sc_running EXCEPT ![j] = @ - 1]
    /\ \E outcome \in {"ok", "failed"} :
         /\ sc_last' = [sc_last EXCEPT ![j] = outcome]
         /\ sc_failures' =
              IF outcome = "failed" THEN [sc_failures EXCEPT ![j] = @ + 1]
              ELSE sc_failures
    /\ UNCHANGED <<sc_state, sc_agent, sc_fired>>

\* runner.py lines 28-30: KeyboardInterrupt or SystemExit in the main
\* thread shuts the scheduler down.
Interrupt ==
    /\ sc_state = "running"
    /\ sc_state' = "shutdown"
    /\ UNCHANGED <<sc_agent, sc_running, sc_fired, sc_last, sc_failures>>

(***************************************************************************)
(* APIClient._request.  A response is [t |-> "exception"] when the session *)
(* raises requests.RequestException, else an HTTP response with its status *)
(* and the kind of its body: "empty", a JSON "dict", "list" or "null", or  *)
(* "text" that is not JSON.  None is [t |-> "none"].  The call is followed *)
(* from one exchange with the server to the next; the retry is the same    *)
(* code entered again with retry_on_401 = False.                           *)
(***************************************************************************)
HttpResponse(status, body) == [t |-> "http", status |-> status, body |-> body]

\* resp.ok
Ok(resp) == resp.status < 400

\* Lines 225-243: the value returned for a response that is not retried.
ResponseValue(resp) ==
    IF ~Ok(resp) THEN [t |-> "none"]
    ELSE IF resp.body = "empty" THEN [t |-> "none"]
    ELSE IF resp.body = "null" THEN [t |-> "none"]
    ELSE [t |-> resp.body]

StatusValues == {200, 401, 500}

BodyValues == {"empty", "dict", "list", "null", "text"}

Responses ==
    {[t |-> "exception"]}
    \cup {HttpResponse(st, b) : st \in StatusValues, b \in BodyValues}

\* login(), lines 82-136, by what the login endpoint answers: "failed"
\* (no base URL or credentials, a request error, a body that is not JSON,
\* no token in it), "raises" (JSON that is not an object: data.get raises
\* AttributeError), "token" (a token and no cookie), "token_cookie".
LoginOutcomes(base_url) ==
    IF base_url THEN {"failed", "raises", "token", "token_cookie"}
    ELSE {"failed"}

\* The auth context after login() with the given outcome.
Login(token, cookies, outcome) ==
    [ok |-> outcome \in {"token", "token_cookie"},
     raised |-> outcome = "raises",
     token |-> token \/ outcome \in {"token", "token_cookie"},
     cookies |-> cookies \/ outcome = "token_cookie"]

RequestInit ==
    /\ ar_pc = "ensure_auth"
    /\ ar_base_url \in BOOLEAN
    /\ ar_token \in BOOLEAN
    /\ ar_cookies \in BOOLEAN
    /\ ar_retry_on_401 = TRUE
    /\ ar_resp = [t |-> "none"]
    /\ ar_ret = [t |-> "pending"]
    /\ ar_attempts = 0
    /\ ar_relogins = 0
    /\ ar_logins = 0

\* The call ends with the given value, or raising.
RequestReturn(value) ==
    /\ ar_pc' = "done"
    /\ ar_ret' = value

\* Lines 186-191 with _ensure_auth, lines 139-164: with a token and a
\* cookie nothing is asked of the server, else login() decides; then the
\* base URL is required.
EnsureAuth ==
    /\ ar_pc = "ensure_auth"
    /\ IF ar_token /\ ar_cookies
       THEN /\ IF ar_base_url
               THEN /\ ar_pc' = "send"
                    /\ UNCHANGED ar_ret
               ELSE RequestReturn([t |-> "none"])
            /\ UNCHANGED <<ar_token, ar_cookies, ar_logins>>
       ELSE \E outcome \in LoginOutcomes(ar_base_url) :
              LET auth == Login(ar_token, ar_cookies, outcome)
              IN /\ ar_token' = auth.token
                 /\ ar_cookies' = auth.cookies
                 /\ ar_logins' = ar_logins + 1
                 /\ IF auth.raised THEN RequestReturn([t |-> "raise"])
                    ELSE IF ~auth.ok THEN RequestReturn([t |-> "none"])
                    ELSE /\ ar_pc' = "send"
                         /\ UNCHANGED ar_ret
    /\ UNCHANGED <<ar_base_url, ar_retry_on_401, ar_resp, ar_attempts, ar_relogins>>

\* Lines 193-205: the request is sent; a RequestException ends the call.
Send ==
    /\ ar_pc = "send"
    /\ ar_attempts' = ar_attempts + 1
    /\ \E resp \in Responses :
         /\ ar_resp' = resp
         /\ IF resp.t = "exception"
            THEN RequestReturn([t |-> "none"])
            ELSE /\ ar_pc' = "response"
                 /\ UNCHANGED ar_ret
    /\ UNCHANGED <<ar_base_url, ar_token, ar_cookies, ar_retry_on_401,
                   ar_relogins, ar_logins>>

\* A mutant of Unauthorized: the retry is entered with retry_on_401 as it
\* was.
UnauthorizedRetryAgain ==
    /\ ar_pc = "response"
    /\ ar_resp.status = 401 /\ ar_retry_on_401
    /\ ar_relogins' = ar_relogins + 1
    /\ ar_logins' = ar_logins + 1
    /\ \E outcome \in LoginOutcomes(ar_base_url) :
         LET auth == Login(FALSE, ar_cookies, outcome)
         IN /\ ar_token' = auth.token
            /\ ar_cookies' = auth.cookies
            /\ IF auth.raised
               THEN RequestReturn([t |-> "raise"]) /\ UNCHANGED ar_retry_on_401
               ELSE IF ~auth.ok
               THEN RequestReturn([t |-> "none"]) /\ UNCHANGED ar_retry_on_401
               ELSE /\ ar_pc' = "ensure_auth"
                    /\ ar_retry_on_401' = ar_retry_on_401
                    /\ UNCHANGED ar_ret
    /\ UNCHANGED <<ar_base_url, ar_resp, ar_attempts>>

\* Lines 207-223: a 401 while retry_on_401 holds clears the token, logs in
\* and, the login done, enters _request again with retry_on_401 = False.
Unauthorized ==
    /\ ar_pc = "response"
    /\ ar_resp.status = 401 /\ ar_retry_on_401
    /\ ar_relogins' = ar_relogins + 1
    /\ ar_logins' = ar_logins + 1
    /\ \E outcome \in LoginOutcomes(ar_base_url) :
         LET auth == Login(FALSE, ar_cookies, outcome)
         IN /\ ar_token' = auth.token
            /\ ar_cookies' = auth.cookies
            /\ IF auth.raised
               THEN RequestReturn([t |-> "raise"]) /\ UNCHANGED ar_retry_on_401
               ELSE IF ~auth.ok
               THEN RequestReturn([t |-> "none"]) /\ UNCHANGED ar_retry_on_401
               ELSE /\ ar_pc' = "ensure_auth"
                    /\ ar_retry_on_401' = FALSE
                    /\ UNCHANGED ar_ret
    /\ UNCHANGED <<ar_base_url, ar_resp, ar_attempts>>

\* Lines 225-243: any other response gives the value of the call.
Respond ==
    /\ ar_pc = "response"
    /\ ~(ar_resp.status = 401 /\ ar_retry_on_401)
    /\ RequestReturn(ResponseValue(ar_resp))
    /\ UNCHANGED <<ar_base_url, ar_token, ar_cookies, ar_retry_on_401, ar_resp,
                   ar_attempts, ar_relogins, ar_logins>>

(***************************************************************************)
(* filter_screenshots_for_today on the text of the URLs.  A text is the    *)
(* sequence of its characters, each a one-character string.                *)
(***************************************************************************)
JpgExt == <<".", "j", "p", "g">>

DigitChars == <<"0", "1", "2", "3", "4", "5", "6", "7", "8", "9">>

\* url.split("/")[-1]
UrlFilename(url) ==
    LET slashes == {i \in 1..Len(url) : url[i] = "/"}
    IN IF slashes = {} THEN url
       ELSE LET last == CHOOSE i \in slashes : \A j \in slashes : j <= i
            IN SubSeq(url, last + 1, Len(url))

\* filename.replace(".jpg", ""): every occurrence removed, left to right.
RECURSIVE FilenameWoExt(_)
FilenameWoExt(filename) ==
    IF filename = <<>> THEN <<>>
    ELSE IF Prefix(filename, Len(JpgExt)) = JpgExt
    THEN FilenameWoExt(SubSeq(filename, Len(JpgExt) + 1, Len(filename)))
    ELSE <<Head(filename)>> \o FilenameWoExt(Tail(filename))

DateLen == 8            \* filename_wo_ext[:8]

\* filename_wo_ext[:8]
ScreenshotDate(filename_wo_ext) == Prefix(filename_wo_ext, DateLen)

\* The day of the month of a day of the model's week: the week is the one
\* of Monday 2024-01-15.
DayOfMonth(day) == 15 + day

\* current_time.strftime("%Y%m%d")
CurrentDateText(timezone_name, clock) ==
    LET dd == DayOfMonth(CurrentDate(timezone_name, clock))
    IN <<"2", "0", "2", "4", "0", "1",
         DigitChars[(dd \div 10) + 1], DigitChars[(dd % 10) + 1]>>

\* A mutant of IsToday: the date read from the digits of the filename.
IsTodayDigits(url, current_date) ==
    LET filename == UrlFilename(url)
        digits == SelectSeq(filename, LAMBDA c : c \in Range(DigitChars))
    IN Prefix(digits, DateLen) = current_date

\* Lines 267-271: the test of one URL.
IsToday(url, current_date) ==
    LET filename == UrlFilename(url)
        filename_wo_ext == FilenameWoExt(filename)
        screenshot_date == ScreenshotDate(filename_wo_ext)
    IN screenshot_date = current_date

RECURSIVE AppendMatching(_, _, _)
AppendMatching(matching_screenshots, urls, current_date) ==
    IF urls = <<>> THEN matching_screenshots
    ELSE IF Head(urls) = <<>>
    THEN AppendMatching(matching_screenshots, Tail(urls), current_date)
    ELSE IF IsToday(Head(urls), current_date)
    THEN AppendMatching(Append(matching_screenshots, Head(urls)), Tail(urls),
                        current_date)
    ELSE AppendMatching(matching_screenshots, Tail(urls), current_date)

\* filter_screenshots_for_today
MatchingScreenshots(file_urls, timezone_name, clock) ==
    IF timezone_name \notin KnownZones THEN <<>>
    ELSE AppendMatching(<<>>, Prefix(file_urls, FilterLimit),
                        CurrentDateText(timezone_name, clock))

\* 's/20240115_090000.jpg'
UrlMorning ==
    <<"s", "/", "2", "0", "2", "4", "0", "1", "1", "5", "_", "0", "9", "0",
      "0", "0", "0", ".", "j", "p", "g">>

\* 's/20240115_143000.jpg'
UrlAfternoon ==
    <<"s", "/", "2", "0", "2", "4", "0", "1", "1", "5", "_", "1", "4", "3",
      "0", "0", "0", ".", "j", "p", "g">>

\* 's/20240114_235900.jpg'
UrlSunday ==
    <<"s", "/", "2", "0", "2", "4", "0", "1", "1", "4", "_", "2", "3", "5",
      "9", "0", "0", ".", "j", "p", "g">>

\* 's/2024-01-15_143000.jpg'
UrlDashed ==
    <<"s", "/", "2", "0", "2", "4", "-", "0", "1", "-", "1", "5", "_", "1",
      "4", "3", "0", "0", "0", ".", "j", "p", "g">>

\* 's/2024.jpg0115.jpg'
UrlInnerExt ==
    <<"s", "/", "2", "0", "2", "4", ".", "j", "p", "g", "0", "1", "1", "5",
      ".", "j", "p", "g">>

\* '20240115.jpg'
UrlNoPath ==
    <<"2", "0", "2", "4", "0", "1", "1", "5", ".", "j", "p", "g">>

\* 's/img20240115.jpg'
UrlLeadingText ==
    <<"s", "/", "i", "m", "g", "2", "0", "2", "4", "0", "1", "1", "5", ".",
      "j", "p", "g">>

\* The empty string.
UrlEmpty == <<>>

FilterUrls ==
    {UrlMorning, UrlAfternoon, UrlSunday, UrlDashed, UrlInnerExt, UrlNoPath,
     UrlLeadingText, UrlEmpty}

\* Listings of up to MaxUrls URLs behind a run of equal ones that ends
\* before, at or one short of the limit of the filter.
PadLens == {0, FilterLimit - 1, FilterLimit}

PadUrls == {UrlMorning, UrlSunday}

Pad(url, n) == [i \in 1..n |-> url]

FilterListings ==
    {Pad(u, n) \o t : u \in PadUrls, n \in PadLens,
                      t \in SeqsUpTo(FilterUrls, MaxUrls)}

\* Monday at noon, and Monday 02:00 UTC, which is still Sunday in US/Central.
FilterClocks == {At(0, 12, 0, 0), At(0, 2, 0, 0)}

FilterInit ==
    /\ fs_urls \in FilterListings
    /\ fs_tz \in {"UTC", "US/Central", "Mars/Phobos"}
    /\ fs_clock \in FilterClocks
    /\ fs_out = [t |-> "pending"]

CallFilterScreenshotsForToday ==
    /\ fs_out.t = "pending"
    /\ fs_out' = [t |-> "done",
                  urls |-> MatchingScreenshots(fs_urls, fs_tz, fs_clock)]
    /\ UNCHANGED <<fs_urls, fs_tz, fs_clock>>

(***************************************************************************)
(* is_black_screen.  An image is [t |-> "image", histogram |-> h], h the   *)
(* histogram of its grayscale conversion (h[1] counts the pixels of        *)
(* luminance 0), or [t |-> "broken"] when the conversion raises.  The      *)
(* ratio black_pixels / total_pixels is kept as the pair of its terms; its *)
(* comparison with 0.9 is exact while the image has fewer than 10^15       *)
(* pixels, the quotient of two such integers differing from 9/10 by more   *)
(* than the rounding of either side when it differs at all.                *)
(***************************************************************************)
RECURSIVE Sum(_)
Sum(histogram) ==
    IF histogram = <<>> THEN 0 ELSE Head(histogram) + Sum(Tail(histogram))

\* A mutant of RatioExceeds: the comparison not strict.
RatioAtLeast(black_pixels, total_pixels, num, den) ==
    black_pixels * den >= total_pixels * num

\* black_pixels / total_pixels > num / den
RatioExceeds(black_pixels, total_pixels, num, den) ==
    black_pixels * den > total_pixels * num

\* is_black_screen
IsBlackScreen(image) ==
    IF image.t = "broken" THEN FALSE
    ELSE LET histogram == image.histogram
         IN IF histogram = <<>> THEN FALSE
            ELSE LET total_pixels == Sum(histogram)
                     black_pixels == histogram[1]
                 IN IF total_pixels = 0 THEN FALSE
                    ELSE RatioExceeds(black_pixels, total_pixels, 9, 10)

\* Histograms of one to three luminance levels.
Histograms ==
    UNION {[1..n -> 0..MaxCount] : n \in 0..3}

ImageValues ==
    {[t |-> "broken"]} \cup {[t |-> "image", histogram |-> h] : h \in Histograms}

BlackInit ==
    /\ bs_image \in ImageValues
    /\ bs_ret = "pending"

CallIsBlackScreen ==
    /\ bs_ret = "pending"
    /\ bs_ret' = IF IsBlackScreen(bs_image) THEN "True" ELSE "False"
    /\ UNCHANGED bs_image

(***************************************************************************)
(* _extract_timestamp_from_url on the text of the URL.  A parsed datetime  *)
(* is the record of its fields; the empty string is <<>>.                  *)
(***************************************************************************)
\* filename.split(".")[0]
NameNoExt(filename) ==
    LET dots == {i \in 1..Len(filename) : filename[i] = "."}
    IN IF dots = {} THEN filename
       ELSE LET first == CHOOSE i \in dots : \A j \in dots : i <= j
            IN SubSeq(filename, 1, first - 1)

\* "".join(ch for ch in name_no_ext if ch.isdigit())
Raw(name_no_ext) == SelectSeq(name_no_ext, LAMBDA ch : ch \in Range(DigitChars))

DigitValue(ch) == (CHOOSE i \in 1..Len(DigitChars) : DigitChars[i] = ch) - 1

\* int(digits)
RECURSIVE IntOf(_)
IntOf(digits) ==
    IF digits = <<>> THEN 0
    ELSE IntOf(SubSeq(digits, 1, Len(digits) - 1)) * 10
            + DigitValue(digits[Len(digits)])

IsLeap(year) == year % 4 = 0 /\ (year % 100 # 0 \/ year % 400 = 0)

DaysInMonth(year, month) ==
    IF month = 2 THEN (IF IsLeap(year) THEN 29 ELSE 28)
    ELSE IF month \in {4, 6, 9, 11} THEN 30 ELSE 31

\* datetime.strptime(raw[:8], "%Y%m%d") and, with time |-> TRUE,
\* datetime.strptime(raw[:14], "%Y%m%d%H%M%S"): the datetime, or
\* [t |-> "ValueError"].  The format takes "60" and "61" for the seconds
\* and the datetime constructor refuses them.
ParseDatetime(digits, time) ==
    LET year == IntOf(SubSeq(digits, 1, 4))
        month == IntOf(SubSeq(digits, 5, 6))
        day == IntOf(SubSeq(digits, 7, 8))
        hour == IF time THEN IntOf(SubSeq(digits, 9, 10)) ELSE 0
        minute == IF time THEN IntOf(SubSeq(digits, 11, 12)) ELSE 0
        second == IF time THEN IntOf(SubSeq(digits, 13, 14)) ELSE 0
    IN IF /\ year >= 1
          /\ month \in 1..12
          /\ day \in 1..DaysInMonth(year, month)
          /\ hour \in 0..23
          /\ minute \in 0..59
          /\ second \in 0..59
       THEN [t |-> "datetime", year |-> year, month |-> month, day |-> day,
             hour |-> hour, minute |-> minute, second |-> second,
             tzinfo |-> "naive"]
       ELSE [t |-> "ValueError"]

\* tz.localize(dt) inside its own try: the fields stay, the zone is
\* attached when pytz knows it.
Localize(dt, timezone_name) ==
    LET name == IF timezone_name = "" THEN "UTC" ELSE timezone_name
    IN IF name \in KnownZones THEN [dt EXCEPT !.tzinfo = name] ELSE dt

\* The decimal digits of n, padded with zeros to a width.
RECURSIVE Padded(_, _)
Padded(n, width) ==
    IF width = 0 THEN <<>>
    ELSE Append(Padded(n \div 10, width - 1), DigitChars[(n % 10) + 1])

\* dt.strftime("%Y-%m-%d %H:%M:%S"), for a year of four digits.
Strftime(dt) ==
    Padded(dt.year, 4) \o <<"-">> \o Padded(dt.month, 2) \o <<"-">>
        \o Padded(dt.day, 2) \o <<" ">> \o Padded(dt.hour, 2) \o <<":">>
        \o Padded(dt.minute, 2) \o <<":">> \o Padded(dt.second, 2)

StampLen == 14          \* len(raw) >= 14, raw[:14]

\* _extract_timestamp_from_url
ExtractTimestampFromUrl(url, timezone_name) ==
    LET filename == UrlFilename(url)
        name_no_ext == NameNoExt(filename)
        raw == Raw(name_no_ext)
    IN IF Len(raw) < DateLen THEN <<>>
       ELSE LET dt == IF Len(raw) >= StampLen
                      THEN ParseDatetime(Prefix(raw, StampLen), TRUE)
                      ELSE ParseDatetime(Prefix(raw, DateLen), FALSE)
            IN IF dt.t = "ValueError" THEN <<>>
               ELSE Strftime(Localize(dt, timezone_name))

\* The filenames of the catalog: a year, a month, a day and a time of day
\* (none, short, whole, out of range or too long), written with or
\* without a separator, and names without a date.
StampYears == {<<"2", "0", "2", "4">>, <<"2", "0", "2", "3">>}

StampMonths == {<<"0", "1">>, <<"0", "2">>, <<"1", "3">>}

StampDays == {<<"1", "5">>, <<"2", "9">>, <<"3", "0">>, <<"0", "0">>}

StampTimes ==
    { <<>>, <<"1", "4", "3", "0">>,
      <<"1", "4", "3", "0", "0", "0">>,
      <<"2", "5", "0", "0", "0", "0">>,
      <<"1", "4", "3", "0", "6", "0">>,
      <<"1", "4", "3", "0", "0", "0", "7">> }

StampSeparators == {<<>>, <<"-">>, <<".">>}

StampNames ==
    {y \o sep \o m \o sep \o d \o sep \o hms :
        y \in StampYears, m \in StampMonths, d \in StampDays,
        hms \in StampTimes, sep \in StampSeparators}
    \cup {<<"j", "u", "n", "k">>, <<"2", "0", "2", "4", "0", "1", "1">>, <<>>}

StampUrls ==
    {<<"x", "/">> \o name \o JpgExt : name \in StampNames}
    \cup {name \o JpgExt : name \in {<<"2", "0", "2", "4", "0", "1", "1", "5">>}}
    \cup {<<>>}

TimestampInit ==
    /\ et_url \in StampUrls
    /\ et_tz \in {"UTC", "US/Central", "Mars/Phobos", ""}
    /\ et_ret = [t |-> "pending"]

CallExtractTimestampFromUrl ==
    /\ et_ret.t = "pending"
    /\ et_ret' = [t |-> "done",
                  text |-> ExtractTimestampFromUrl(et_url, et_tz)]
    /\ UNCHANGED <<et_url, et_tz>>

(***************************************************************************)
(* Properties of is_store_open.                                            *)
(***************************************************************************)
\* The call has returned or raised.
HoursDone == sh_ret # "pending"

\* The local instant the claims speak of: now in the device's zone.
DeviceLocal == LocalNow(sh_tz, sh_clock)

\* The schedule is a JSON list.
IsList == sh_json.t = "json" /\ sh_json.v.t = "list"

\* The schedule is a JSON list of day objects none of whose periods makes
\* the parser raise.
WellFormed ==
    /\ IsList
    /\ \A i \in 1..Len(sh_json.v.items) :
         /\ sh_json.v.items[i].t = "obj"
         /\ \A j \in 1..Len(sh_json.v.items[i].periods) :
              ParsePeriod(sh_json.v.items[i].periods[j]).k # "raise"

\* The parsed periods <<day name, opening, closing>> of the enabled day
\* entries of a well-formed schedule.
EnabledPeriods ==
    { <<sh_json.v.items[i].day,
        ParsePeriod(sh_json.v.items[i].periods[j]).o,
        ParsePeriod(sh_json.v.items[i].periods[j]).c>> :
        <<i, j>> \in
          { ij \in (1..Len(sh_json.v.items)) \X (1..MaxPeriods + 1) :
              /\ sh_json.v.items[ij[1]].status # "false"
              /\ ij[2] <= Len(sh_json.v.items[ij[1]].periods)
              /\ ParsePeriod(sh_json.v.items[ij[1]].periods[ij[2]]).k = "ok" } }

\* The day entry of period p is the one for the weekday of instant local.
OnItsDay(p, local) == p[1] = "absent" \/ p[1] = DayNameOf(local)

GraceSeconds == 5 * 60

\* C3 (as claimed): in the first 5 minutes after a period's opening time
\* is_store_open returns false, and once the 5 minutes are over, up to the
\* closing time, it returns true.
C3_GracePeriod ==
    (HoursDone /\ WellFormed /\ sh_tz \in KnownZones) =>
        \A p \in EnabledPeriods :
            (OnItsDay(p, DeviceLocal) /\ p[2] <= p[3]) =>
                LET tod == TimeOfDay(DeviceLocal)
                IN /\ (p[2] <= tod /\ tod < p[2] + GraceSeconds)
                        => sh_ret = "False"
                   /\ (p[2] + GraceSeconds <= tod /\ tod <= p[3])
                        => sh_ret = "True"

\* C4 (as claimed): an overnight period (opening > closing) of a day entry
\* makes is_store_open return true from its opening time (after the grace
\* window) to midnight on the entry's weekday, and from midnight to its
\* closing time on the following weekday.
C4_OvernightSpan ==
    (HoursDone /\ WellFormed /\ sh_tz \in KnownZones) =>
        \A p \in EnabledPeriods :
            p[2] > p[3] =>
                LET tod == TimeOfDay(DeviceLocal)
                    today == DayNameOf(DeviceLocal)
                IN /\ (OnItsDay(p, DeviceLocal) /\ tod >= p[2] + GraceSeconds)
                        => sh_ret = "True"
                   /\ ((p[1] = "absent" \/ today = NextDayName(p[1]))
                          /\ tod <= p[3])
                        => sh_ret = "True"

\* Every parsed period of an enabled day entry is a same-day span.
SameDayOnly == WellFormed /\ \A p \in EnabledPeriods : p[2] <= p[3]

\* C5: with same-day periods only, is_store_open returns true exactly when
\* some period of an enabled entry for the current weekday has
\* opening <= time of day <= closing, and false at every other time.
C5_SameDaySpan ==
    (HoursDone /\ SameDayOnly) =>
        LET local == LocalNow(EffectiveZone(sh_tz), sh_clock)
            covered == \E p \in EnabledPeriods :
                          /\ OnItsDay(p, local)
                          /\ p[2] <= TimeOfDay(local)
                          /\ TimeOfDay(local) <= p[3]
        IN sh_ret = (IF covered THEN "True" ELSE "False")

\* C5 witnesses: a call at exactly the closing time of a same-day period
\* that returned true.
C5_Witness ==
    /\ HoursDone /\ SameDayOnly /\ sh_ret = "True"
    /\ \E p \in EnabledPeriods :
          /\ OnItsDay(p, LocalNow(EffectiveZone(sh_tz), sh_clock))
          /\ TimeOfDay(LocalNow(EffectiveZone(sh_tz), sh_clock)) = p[3]

\* C6 (as claimed): for a schedule that is absent, unparseable or
\* well formed, is_store_open returns false when the schedule is absent or
\* unparseable, when the timezone name is unrecognized, and when no period
\* matches the current day and time.
C6_FailClosed ==
    (HoursDone /\ (sh_json.t \in {"none", "notstr", "badjson"} \/ WellFormed)) =>
        /\ sh_json.t \in {"none", "notstr", "badjson"} => sh_ret = "False"
        /\ sh_tz \notin KnownZones => sh_ret = "False"
        /\ (WellFormed /\ sh_tz \in KnownZones
              /\ ~ \E p \in EnabledPeriods :
                      /\ OnItsDay(p, DeviceLocal)
                      /\ PeriodOpen(p[2], p[3], TimeOfDay(DeviceLocal)))
             => sh_ret = "False"

\* C7 (as claimed): for every schedule that is valid JSON is_store_open
\* returns a boolean and never raises.
C7_NeverRaises ==
    (HoursDone /\ sh_json.t = "json") => sh_ret \in {"True", "False"}

(***************************************************************************)
(* Properties of _process_license.                                         *)
(***************************************************************************)
\* The zone _process_license works in.
LicenseZone == IF pl_lic.timezoneName = "" THEN "UTC" ELSE pl_lic.timezoneName

\* The URLs of the listing that carry today's date, as the selector
\* returns them, when the listing was fetched.
TodaysUrls ==
    IF pl_lic.licenseId # "" /\ pl_resp.t = "dict" /\ pl_resp.hasFiles
    THEN FilterScreenshotsForToday(pl_resp.files, LicenseZone, pl_clock)
    ELSE <<>>

\* The call wrote the row of a device with a screenshot of today.
Sampled == pl_out.k = "row" /\ TodaysUrls # <<>>

TheSample == Prefix(TodaysUrls, SampleLimit)

\* b: the sampled images classified black.
BlackCount == Cardinality({i \in 1..Len(TheSample) : TheSample[i].img = "black"})

RECURSIVE SumOver(_, _)
SumOver(f, S) ==
    IF S = {} THEN 0
    ELSE LET x == CHOOSE y \in S : TRUE IN f[x] + SumOver(f, S \ {x})

\* e: the (image, phrase) pairs of the sample where the phrase occurs in
\* the image's OCR text.
MatchCount ==
    SumOver([i \in 1..Len(TheSample) |->
                IF TheSample[i].img = "text"
                THEN Cardinality(TheSample[i].phrases \cap ErrorMessages)
                ELSE 0],
            1..Len(TheSample))

\* C1: with 3 or more sampled images black the status is
\* OPEN_HOURS_BLACK_SCREEN, whatever the phrase-match count.
C1_BlackScreenFirst ==
    (Sampled /\ BlackCount >= 3) =>
        pl_out.row.status = "OPEN_HOURS_BLACK_SCREEN"

\* C1 witness: 3 black images and 5 phrase matches, reported as black screen.
C1_Witness ==
    /\ Sampled /\ BlackCount >= 3 /\ MatchCount >= 5
    /\ pl_out.row.status = "OPEN_HOURS_BLACK_SCREEN"

\* C2: the status of a device with a screenshot of today is this function
\* of (b, e), one of four codes.
C2_StatusTable ==
    Sampled =>
        pl_out.row.status =
            (IF BlackCount >= 3 THEN "OPEN_HOURS_BLACK_SCREEN"
             ELSE IF MatchCount >= 5 THEN "STUCK_ON_ERROR"
             ELSE IF MatchCount >= 1 THEN "ERROR_DISPLAYED"
             ELSE "OK")

\* C2 witness: exactly 5 phrase matches and fewer than 3 black images,
\* reported as STUCK_ON_ERROR.
C2_Witness ==
    /\ Sampled /\ BlackCount < 3 /\ MatchCount = 5
    /\ pl_out.row.status = "STUCK_ON_ERROR"

(***************************************************************************)
(* Properties of run_screenshot_health.                                    *)
(***************************************************************************)
\* The data rows of the worksheet that carry license key k.
RowsOfKey(k) == {i \in 2..Len(rs_sheet) : rs_sheet[i].key = k}

\* C8 (as claimed): the device loop appends no row for a device whose
\* store is closed and exactly one row, with the device's key, for a device
\* whose store is open, whatever the listing request returns.
C8_OneRowPerOpenDevice ==
    [][rs_pc = "process" =>
        LET lic == Head(rs_queue)
            open == RunOpen[lic]
        IN /\ open = "False" => rs_sheet' = rs_sheet
           /\ open = "True" =>
                /\ Len(rs_sheet') = Len(rs_sheet) + 1
                /\ SubSeq(rs_sheet', 1, Len(rs_sheet)) = rs_sheet
                /\ rs_sheet'[Len(rs_sheet')].key = lic.licenseKey]_runVars

\* No step of a run changes or removes a data row of the worksheet: rows
\* are only added at the bottom.
AppendOnly ==
    [][/\ Len(rs_sheet') >= Len(rs_sheet)
       /\ \A i \in 2..Len(rs_sheet) : rs_sheet'[i] = rs_sheet[i]]_runVars

\* C9 (as claimed): between runs, each device key appears in one row for
\* each time a run has met the device open (k rows after k runs over the
\* same open devices).
C9_RowPerDevicePerRun ==
    rs_pc = "idle" => \A k \in RunKeys : Cardinality(RowsOfKey(k)) = rs_opened[k]

(***************************************************************************)
(* Properties of _sync_zone_sheet.                                         *)
(***************************************************************************)
\* The IDs of the data rows, read as the stale scan reads them.
SheetIds(sheet) == {Strip(sheet[i].id) : i \in 2..Len(sheet)}

\* The rows the call had to remove: data rows of the prior sheet with a
\* non-empty ID that does not mismatch in this run.
StaleBefore ==
    {i \in 2..Len(zs_prior) :
        /\ Strip(zs_prior[i].id) # <<>>
        /\ Strip(zs_prior[i].id) \notin MismatchedIds(zs_results)}

CarriesRunValues(id) ==
    \E i \in 2..Len(zs_sheet) : \E j \in 1..Len(zs_results) :
        /\ zs_results[j].is_mismatch
        /\ zs_results[j].license_id = id
        /\ zs_sheet[i] = ZoneRow(id, zs_results[j].versions, zs_results[j].status)

RunRank ==
    (MaxPages + 1 - Len(rs_requests)) * (MaxPageLen + 1) + Len(rs_queue)

\* A run in progress can always take its next step, and each step leaves
\* less of the run.
RunAdvances ==
    /\ [](/\ rs_pc = "fetch" => ENABLED FetchPage
          /\ rs_pc = "process" => ENABLED ProcessNextLicense)
    /\ [][rs_pc # "idle" => RunRank' < RunRank /\ RunRank' >= 0]_runVars

C12_Pagination ==
    /\ [](/\ rs_requests = [i \in 1..Len(rs_requests) |-> i]
          /\ rs_pc = "process" => rs_queue # <<>> /\ Len(rs_requests) = rs_taken
          /\ rs_pc = "fetch" => Len(rs_requests) = rs_taken
          /\ rs_pc = "idle" /\ rs_requests # <<>> =>
                Len(rs_requests) = rs_taken + 1)
    /\ RunAdvances
    /\ [](/\ zf_requests = [i \in 1..Len(zf_requests) |-> i]
          /\ zf_pc = "fetch" => Len(zf_requests) = zf_taken /\ ENABLED ZoneFetchPage
          /\ zf_pc \in {"done", "raised"} => Len(zf_requests) = zf_taken + 1
          /\ zf_taken = 0 => zf_licenses = <<>>
          /\ Len(zf_licenses) >= zf_taken)
    /\ [][zf_pc = "fetch" => Len(zf_requests') = Len(zf_requests) + 1]_zoneFetchVars

\* A run over one page with devices and then a page without: two requests.
C12_Witness ==
    /\ rs_pc = "idle"
    /\ rs_taken = 1
    /\ rs_requests = <<1, 2>>

C14_SchedulerSurvives ==
    /\ [](sc_state # "crashed")
    /\ [][\A j \in JobIds : sc_last'[j] = "failed" /\ sc_last[j] # "failed" =>
            sc_state' = "running"]_schedVars
    /\ [](\A j \in RegisteredJobs(sc_agent) :
            sc_state = "running" /\ sc_last[j] = "failed" /\ sc_fired[j] < MaxFires
                => ENABLED Fire(j))

\* After a failed run of a job its interval has fired again and the job
\* is running again.
C14_Witness ==
    /\ sc_state = "running"
    /\ sc_failures["screenshot_health"] = 1
    /\ sc_last["screenshot_health"] = "started"
    /\ sc_running["screenshot_health"] = 1

(***************************************************************************)
(* Properties of APIClient._request.                                       *)
(***************************************************************************)
\* C15 (as claimed): the call returns None whenever the request raises, the
\* status is not 2xx or the body cannot be parsed as JSON.
C15_NoneOnFailure ==
    ar_pc = "done" /\ ar_resp.t # "none" /\ ar_ret.t # "raise" =>
        ((ar_resp.t = "exception" \/ ~Ok(ar_resp) \/ ar_resp.body = "text")
            => ar_ret = [t |-> "none"])

(***************************************************************************)
(* Properties of filter_screenshots_for_today.                             *)
(***************************************************************************)
FilterDone == fs_out.t = "done"

\* The positions of the listing the claims speak of: the first 10.
Inspected == 1..Min(10, Len(fs_urls))

\* The digits of a text, in order.
DigitsOnly(text) == SelectSeq(text, LAMBDA c : c \in Range(DigitChars))

\* Today's date in the device's zone as YYYYMMDD.
Today == CurrentDateText(fs_tz, fs_clock)

\* C16 as stated: a URL is selected iff the first 8 characters of the
\* digit-only string extracted from its filename equal today's date, so
\* that '2024-01-15_143000.jpg' is selected on 2024-01-15.
C16_DigitPrefixSelects ==
    FilterDone /\ fs_tz \in KnownZones =>
        \A i \in Inspected :
            fs_urls[i] # <<>> =>
                (fs_urls[i] \in Range(fs_out.urls)
                    <=> Prefix(DigitsOnly(UrlFilename(fs_urls[i])), 8) = Today)

\* C16, amended: a URL among those inspected is selected iff the first 8
\* characters of its filename, every ".jpg" removed and nothing else, equal
\* today's date as YYYYMMDD; with an unknown zone nothing is selected.
C16_LeadingCharactersSelect ==
    FilterDone =>
        /\ fs_tz \in KnownZones =>
              \A i \in Inspected :
                  fs_urls[i] # <<>> =>
                      (fs_urls[i] \in Range(fs_out.urls)
                          <=> Prefix(FilenameWoExt(UrlFilename(fs_urls[i])), 8)
                                  = Today)
        /\ fs_tz \notin KnownZones => fs_out.urls = <<>>

\* C16: the filter has passed over '2024-01-15_143000.jpg' on 2024-01-15
\* and has selected another URL of the same listing.
C16_Witness ==
    /\ FilterDone
    /\ fs_tz \in KnownZones
    /\ Today = <<"2", "0", "2", "4", "0", "1", "1", "5">>
    /\ \E i \in Inspected : fs_urls[i] = UrlDashed
    /\ UrlDashed \notin Range(fs_out.urls)
    /\ fs_out.urls # <<>>

\* The elements of a sequence at the positions of a set, in ascending order.
RECURSIVE SubseqAt(_, _)
SubseqAt(seq, I) ==
    IF I = {} THEN <<>>
    ELSE LET m == CHOOSE x \in I : \A y \in I : x <= y
         IN <<seq[m]>> \o SubseqAt(seq, I \ {m})

\* C17: the result holds URLs of the first 10 positions only, and it is
\* the selected ones of those positions in their input order.
C17_FirstTenInOrder ==
    FilterDone =>
        LET kept == {i \in Inspected : fs_urls[i] \in Range(fs_out.urls)}
        IN /\ Range(fs_out.urls) \subseteq {fs_urls[i] : i \in Inspected}
           /\ fs_out.urls = SubseqAt(fs_urls, kept)

\* C17: the URL at position 11 carries today's date and occurs nowhere
\* before; it is not in the result, which holds two different URLs.
C17_Witness ==
    /\ FilterDone
    /\ fs_tz \in KnownZones
    /\ Len(fs_urls) >= 11
    /\ Prefix(FilenameWoExt(UrlFilename(fs_urls[11])), 8) = Today
    /\ fs_urls[11] \notin {fs_urls[i] : i \in Inspected}
    /\ fs_urls[11] \notin Range(fs_out.urls)
    /\ Cardinality(Range(fs_out.urls)) >= 2

(***************************************************************************)
(* Properties of _process_license: the rows without and with screenshots.  *)
(***************************************************************************)
\* The device is open at the instant of the call.
DeviceOpen == IsStoreOpen(pl_lic.storeHours, LicenseZone, pl_clock) = "True"

\* The listing call returns nothing.
ListingNothing ==
    pl_lic.licenseId = "" \/ pl_resp.t = "none" \/ pl_resp.t = "emptydict"

\* The response has no 'files' key or an empty 'files' list.
ListingNoFiles ==
    /\ pl_lic.licenseId # ""
    /\ pl_resp.t = "dict"
    /\ ~pl_resp.hasFiles \/ pl_resp.files = <<>>

\* Files are listed and no filename carries today's date.
ListingNoneToday ==
    /\ pl_lic.licenseId # ""
    /\ pl_resp.t = "dict" /\ pl_resp.hasFiles /\ pl_resp.files # <<>>
    /\ LicenseZone \in KnownZones
    /\ \A i \in 1..Len(pl_resp.files) :
          pl_resp.files[i].date # CurrentDate(LicenseZone, pl_clock)

\* C18: an open device whose listing is nothing, has no files or has none
\* of today gets a NO_SCREENSHOTS row with empty URL, timestamp and error
\* text, and the call does not raise.
C18_NoScreenshotsRow ==
    pl_out.k # "pending" /\ DeviceOpen
        /\ (ListingNothing \/ ListingNoFiles \/ ListingNoneToday)
    => /\ pl_out.k = "row"
       /\ pl_out.row.key = pl_lic.licenseKey
       /\ pl_out.row.status = "NO_SCREENSHOTS"
       /\ pl_out.row.url = <<>>
       /\ pl_out.row.ts = <<>>
       /\ pl_out.row.errors = <<>>

\* C18: the row of an open device whose listing has files, none of today.
C18_Witness ==
    /\ DeviceOpen
    /\ ListingNoneToday
    /\ pl_out.k = "row"
    /\ pl_out.row.status = "NO_SCREENSHOTS"

\* The sampled images in which an error phrase was detected.
ErrorHits ==
    {i \in 1..Len(TheSample) :
        TheSample[i].img = "text" /\ TheSample[i].phrases \cap ErrorMessages # {}}

\* C19: the row shows the first sampled image with an error phrase when
\* there is one, else the screenshot of today with the greatest filename;
\* its timestamp is the one of the URL it shows.
C19_RepresentativeScreenshot ==
    Sampled =>
        /\ ErrorHits # {} =>
              \E i \in ErrorHits :
                  /\ \A j \in ErrorHits : i <= j
                  /\ pl_out.row.url = <<TheSample[i]>>
        /\ ErrorHits = {} =>
              \E u \in Range(TodaysUrls) :
                  /\ \A v \in Range(TodaysUrls) : NameLeq(FileName(v), FileName(u))
                  /\ pl_out.row.url = <<u>>
        /\ Len(pl_out.row.url) = 1
        /\ pl_out.row.ts = ExtractTimestamp(pl_out.row.url[1])

\* C19: the row shows an image with an error phrase that is neither the
\* first of the sample nor the screenshot with the greatest filename.
C19_Witness ==
    /\ Sampled
    /\ ErrorHits # {}
    /\ 1 \notin ErrorHits
    /\ pl_out.row.url # <<TheSample[1]>>
    /\ \E v \in Range(TodaysUrls) :
          ~NameLeq(FileName(v), FileName(pl_out.row.url[1]))

(***************************************************************************)
(* Properties of is_black_screen.                                          *)
(***************************************************************************)
\* C20: the image is black iff its pixels of luminance 0 are strictly
\* more than 90% of all its pixels; an image without pixels or without
\* histogram is not black.
C20_BlackAboveNinetyPercent ==
    bs_ret # "pending" =>
        (bs_ret = "True" <=>
            /\ bs_image.t = "image"
            /\ bs_image.histogram # <<>>
            /\ bs_image.histogram[1] * 10 > Sum(bs_image.histogram) * 9)

\* C20: an image with exactly 90% of its pixels black was found not black.
C20_Witness ==
    /\ bs_ret = "False"
    /\ bs_image.t = "image"
    /\ bs_image.histogram = <<9, 1>>

(***************************************************************************)
(* Properties of _extract_timestamp_from_url.                              *)
(***************************************************************************)
\* The digits of the filename, in order.
StampDigits == DigitsOnly(UrlFilename(et_url))

\* The first 8 digits are a date of the calendar.
DigitsAreDate ==
    /\ Len(StampDigits) >= 8
    /\ IntOf(SubSeq(StampDigits, 1, 4)) >= 1
    /\ IntOf(SubSeq(StampDigits, 5, 6)) \in 1..12
    /\ IntOf(SubSeq(StampDigits, 7, 8)) \in
          1..DaysInMonth(IntOf(SubSeq(StampDigits, 1, 4)),
                         IntOf(SubSeq(StampDigits, 5, 6)))

\* The digits 9 to 14 are a time of day.
DigitsAreTime ==
    /\ Len(StampDigits) >= 14
    /\ IntOf(SubSeq(StampDigits, 9, 10)) \in 0..23
    /\ IntOf(SubSeq(StampDigits, 11, 12)) \in 0..59
    /\ IntOf(SubSeq(StampDigits, 13, 14)) \in 0..59

\* 'YYYY-MM-DD' of the first 8 digits.
DatePart ==
    SubSeq(StampDigits, 1, 4) \o <<"-">> \o SubSeq(StampDigits, 5, 6)
        \o <<"-">> \o SubSeq(StampDigits, 7, 8)

\* 'HH:MM:SS' of the digits 9 to 14.
TimePart ==
    SubSeq(StampDigits, 9, 10) \o <<":">> \o SubSeq(StampDigits, 11, 12)
        \o <<":">> \o SubSeq(StampDigits, 13, 14)

Midnight == <<"0", "0", ":", "0", "0", ":", "0", "0">>

\* C21 (as claimed): a filename whose digits form YYYYMMDDHHMMSS gives
\* 'YYYY-MM-DD HH:MM:SS' with the same fields, one with 8 to 13 digits its
\* date at 00:00:00, and one with fewer than 8 digits or digits that are
\* not a date and time the empty string.
C21_TimestampOfDigits ==
    et_ret.t = "done" =>
        /\ Len(StampDigits) = 14 /\ DigitsAreDate /\ DigitsAreTime
              => et_ret.text = DatePart \o <<" ">> \o TimePart
        /\ Len(StampDigits) \in 8..13 /\ DigitsAreDate
              => et_ret.text = DatePart \o <<" ">> \o Midnight
        /\ Len(StampDigits) < 8 => et_ret.text = <<>>
        /\ Len(StampDigits) \in 8..14 /\ ~DigitsAreDate => et_ret.text = <<>>
        /\ Len(StampDigits) = 14 /\ ~DigitsAreTime => et_ret.text = <<>>

\* The same for the filenames without a dot before the extension.
TimestampOfUndottedDigits ==
    NameNoExt(UrlFilename(et_url)) \o JpgExt = UrlFilename(et_url)
        => C21_TimestampOfDigits

(***************************************************************************)
(* Properties of the sample of _process_license.                           *)
(***************************************************************************)
\* The status that b black images and e phrase matches give.
StatusOfCounts(b, e) ==
    IF b >= 3 THEN "OPEN_HOURS_BLACK_SCREEN"
    ELSE IF e >= 5 THEN "STUCK_ON_ERROR"
    ELSE IF e >= 1 THEN "ERROR_DISPLAYED"
    ELSE "OK"

\* The call on the same device with another listing.
OutcomeOn(files) ==
    ProcessLicense(pl_lic, [t |-> "dict", hasFiles |-> TRUE, files |-> files],
                   pl_clock)

FirstFour == SubSeq(TodaysUrls, 1, Min(4, Len(TodaysUrls)))

\* C22: the status and the error text of the row are those of the first 4
\* of today's URLs alone, whatever the 5th and later ones show.
C22_OnlyFirstFourCount ==
    Sampled =>
        /\ pl_out.row.status = OutcomeOn(FirstFour).row.status
        /\ pl_out.row.errors = OutcomeOn(FirstFour).row.errors
        /\ pl_out.row.status =
              StatusOfCounts(
                  Cardinality({i \in 1..Len(FirstFour) : FirstFour[i].img = "black"}),
                  SumOver([i \in 1..Len(FirstFour) |->
                              IF FirstFour[i].img = "text"
                              THEN Cardinality(FirstFour[i].phrases \cap ErrorMessages)
                              ELSE 0],
                          1..Len(FirstFour)))

\* C22: a 5th screenshot of today is black, the third black one of the
\* listing, and the status is not the black-screen one.
C22_Witness ==
    /\ Sampled
    /\ Len(TodaysUrls) >= 5
    /\ TodaysUrls[5].img = "black"
    /\ Cardinality({i \in 1..4 : TodaysUrls[i].img = "black"}) = 2
    /\ pl_out.row.status # "OPEN_HOURS_BLACK_SCREEN"

\* The sampled images that loaded and went through OCR.
Failed(url) == url.img \in {"loadfail", "ocrfail"}

Classified == SelectSeq(TheSample, LAMBDA url : ~Failed(url))

\* C23: the device gets its row, and the status and error text are those
\* of the sampled images that did not fail: OK without error text when
\* every one failed.
C23_FailedImageSkipped ==
    pl_out.k # "pending" /\ TodaysUrls # <<>> =>
        /\ pl_out.k = "row"
        /\ IF Classified = <<>>
           THEN pl_out.row.status = "OK" /\ pl_out.row.errors = <<>>
           ELSE /\ pl_out.row.status = OutcomeOn(Classified).row.status
                /\ pl_out.row.errors = OutcomeOn(Classified).row.errors

\* C23: the first sampled image did not load, another failed in OCR, and a
\* later one was classified: its phrase is in the row.
C23_Witness ==
    /\ Sampled
    /\ TheSample[1].img = "loadfail"
    /\ \E i \in 1..Len(TheSample) : TheSample[i].img = "ocrfail"
    /\ pl_out.row.status = "ERROR_DISPLAYED"
    /\ pl_out.row.errors = <<3>>

\* The phrases that occur in the text of a sampled image.
PhrasesSeen ==
    UNION {TheSample[i].phrases \cap ErrorMessages :
              i \in {j \in 1..Len(TheSample) : TheSample[j].img = "text"}}

\* C24: the error text holds each phrase seen in a sampled image once, in
\* ascending order, and the thresholds are met by the (image, phrase)
\* pairs, which can be more than the phrases shown.
C24_PairsCountedPhrasesShown ==
    Sampled =>
        /\ Range(pl_out.row.errors) = PhrasesSeen
        /\ \A i, j \in 1..Len(pl_out.row.errors) :
              i < j => pl_out.row.errors[i] < pl_out.row.errors[j]
        /\ BlackCount < 3 =>
              /\ pl_out.row.status = "STUCK_ON_ERROR" <=> MatchCount >= 5
              /\ pl_out.row.status = "ERROR_DISPLAYED" <=> MatchCount \in 1..4
              /\ pl_out.row.status = "OK" <=> MatchCount = 0

\* C24: STUCK_ON_ERROR with fewer than 5 phrases in the error text.
C24_Witness ==
    /\ Sampled
    /\ pl_out.row.status = "STUCK_ON_ERROR"
    /\ Len(pl_out.row.errors) = 3
    /\ MatchCount >= 5

(***************************************************************************)
(* Properties of is_store_open: disabled days.                             *)
(***************************************************************************)
\* The instant of the call in the zone the evaluation uses.
EvalLocal == LocalNow(EffectiveZone(sh_tz), sh_clock)

\* Day entry i is for the current weekday: it names it, or names no day.
ForToday(i) ==
    sh_json.v.items[i].day \in {"absent", DayNameOf(EvalLocal)}

\* The current time lies inside a period of day entry i.
InsideAPeriod(i) ==
    \E j \in 1..Len(sh_json.v.items[i].periods) :
        LET parsed == ParsePeriod(sh_json.v.items[i].periods[j])
        IN /\ parsed.k = "ok"
           /\ PeriodOpen(parsed.o, parsed.c, TimeOfDay(EvalLocal))

\* The schedule is a list of day entries, those for the current weekday
\* are all disabled, and the current time lies inside a period of one that
\* names the weekday.
OnlyDisabledToday ==
    /\ IsList
    /\ \A i \in 1..Len(sh_json.v.items) :
          /\ sh_json.v.items[i].t = "obj"
          /\ ForToday(i) => sh_json.v.items[i].status = "false"
    /\ \E i \in 1..Len(sh_json.v.items) :
          /\ sh_json.v.items[i].day = DayNameOf(EvalLocal)
          /\ InsideAPeriod(i)

\* C25: a disabled day entry contributes no open period: when the entries
\* for the current weekday are all disabled, is_store_open returns false
\* even inside one of their periods.
C25_DisabledDayClosed ==
    HoursDone /\ OnlyDisabledToday => sh_ret = "False"

\* C25: a call inside a period of the disabled entry of the current
\* weekday has returned false.
C25_Witness ==
    HoursDone /\ OnlyDisabledToday /\ sh_ret = "False"

(***************************************************************************)
(* Properties of the row counter of run_screenshot_health.                 *)
(***************************************************************************)
\* C26: a run starts row_counter at the number of rows the worksheet
\* holds, or 1; every step of the run adds to it the rows the step has
\* appended, so that it never decreases and stays at its start value plus
\* the rows of this run; a device that raises leaves it as it is.
C26_RowCounter ==
    /\ [][rs_pc = "idle" /\ rs_pc' # "idle" =>
            rs_row_counter' = (IF Len(rs_sheet) >= 1 THEN Len(rs_sheet) ELSE 1)]_runVars
    /\ [][rs_pc # "idle" =>
            /\ rs_row_counter' >= rs_row_counter
            /\ rs_row_counter' - rs_row_counter = Len(rs_sheet') - Len(rs_sheet)]_runVars
    /\ [][rs_pc = "process" /\ rs_last' = "raise" =>
            rs_row_counter' = rs_row_counter]_runVars

\* C26: in the second run, after a row of this run and then a device that
\* raised, the counter is the rows found at the start plus one.
C26_Witness ==
    /\ rs_pc # "idle"
    /\ rs_runs = 1
    /\ rs_last = "raise"
    /\ rs_row_counter = 3
    /\ Len(rs_sheet) = 3

(***************************************************************************)
(* Properties of the retry of APIClient._request.                          *)
(***************************************************************************)
\* What is left of the call: the exchanges it can still have.
RequestMeasure ==
    (IF ar_retry_on_401 THEN 4 ELSE 0)
    + (CASE ar_pc = "ensure_auth" -> 3
         [] ar_pc = "send" -> 2
         [] ar_pc = "response" -> 1
         [] ar_pc = "done" -> 0)

\* C27: the call sends at most two requests to the target URL and a 401
\* makes it log in at most once; a 401 on the first attempt clears the
\* token and logs in, and the call goes on to its one retry when that
\* login has given a token; a 401 on the retry ends the call with None;
\* every step brings the call nearer to its end and the call can always
\* take a step until it has ended.
C27_OneRetry ==
    /\ [](ar_attempts <= 2 /\ ar_relogins <= 1)
    /\ [](ar_attempts = 2 => ar_relogins = 1 /\ ~ar_retry_on_401)
    /\ [][ar_pc = "response" /\ ar_resp.status = 401 /\ ar_attempts = 1 =>
            /\ ar_relogins' = 1
            /\ (ar_pc' = "done" =>
                    ~ar_token' /\ ar_ret' \in {[t |-> "none"], [t |-> "raise"]})
            /\ (ar_pc' # "done" =>
                    ar_token' /\ ~ar_retry_on_401' /\ ar_pc' = "ensure_auth")]_requestVars
    /\ [][ar_pc = "response" /\ ar_resp.status = 401 /\ ar_attempts = 2 =>
            /\ ar_pc' = "done"
            /\ ar_ret' = [t |-> "none"]
            /\ ar_relogins' = ar_relogins
            /\ ar_attempts' = 2]_requestVars
    /\ [][RequestMeasure' < RequestMeasure]_requestVars
    /\ [](ar_pc # "done" => ENABLED (EnsureAuth \/ Send \/ Unauthorized \/ Respond))

\* C27: the retry was answered with a 401 and the call has returned None
\* after two requests and one login caused by a 401.
C27_Witness ==
    /\ ar_pc = "done"
    /\ ar_attempts = 2
    /\ ar_relogins = 1
    /\ ar_resp.t = "http" /\ ar_resp.status = 401
    /\ ar_ret = [t |-> "none"]

(***************************************************************************)
(* Properties of run_version_zone_check.                                   *)
(***************************************************************************)
\* The data rows of a sheet whose ID cell, blanks apart, holds an ID.
RowsWithId(sheet) == {i \in 2..Len(sheet) : Strip(sheet[i].id) # <<>>}

\* The rows of a sheet without an ID, in order.
RowsWithoutId(sheet) ==
    SelectSeq(SubSeq(sheet, 2, Len(sheet)), LAMBDA row : Strip(row.id) = <<>>)

\* The listing of the zone has brought nothing on its first page: the
\* one request was answered with nothing or with no licenses.
NothingOnFirstPage ==
    zf_pc = "done" /\ zf_requests = <<1>> /\ zf_licenses = <<>>

\* C28: a zone whose listing yields no licenses on its first page is
\* synced all the same, with no results: the next step of the zone is the
\* sync, and after it no data row with an ID is left in the sheet of the
\* zone, the rows without an ID staying as they were.
C28_EmptyZoneCleared ==
    /\ [](NothingOnFirstPage => zc_pc \in {"sync", "synced", "over"})
    /\ [](NothingOnFirstPage /\ zc_pc = "sync" => zs_results = <<>> /\ ENABLED SyncZone)
    /\ [](NothingOnFirstPage /\ zc_pc \in {"synced", "over"} =>
            /\ zs_results = <<>>
            /\ RowsWithId(zs_sheet) = {}
            /\ zs_sheet = <<ZoneHeaders>> \o RowsWithoutId(zs_prior))

\* C28: the listing of a zone gave nothing and the sync has removed the
\* two rows with an ID that the sheet of the zone held.
C28_Witness ==
    /\ NothingOnFirstPage
    /\ zc_pc = "synced"
    /\ Cardinality(RowsWithId(zs_prior)) = 2
    /\ Len(zs_sheet) = Len(zs_prior) - 2

\* The licenses of the zone checked so far, and those of them of which a
\* version differs from the expected one.
CheckedLicenses == SubSeq(zf_licenses, 1, Len(zs_results))

Differs(license_data) ==
    \/ license_data.serverVersion # EXPECTED_SERVER_VERSION
    \/ license_data.uiVersion # EXPECTED_UI_VERSION

\* The number of the licenses among the first n checked that differ.
DifferingUpTo(n) ==
    Cardinality({i \in 1..n : Differs(CheckedLicenses[i])})

StatusSent == "Version mismatch - player restart signal sent"

StatusFailed == "Version mismatch - FAILED to send restart signal"

\* C29: the calls of restart_player are, in order, one for each checked
\* license that differs in a version and none for a license that matches;
\* the status of a differing license says that the signal was sent iff
\* its call returned true and that it FAILED otherwise; for an empty
\* license ID nothing is emitted and the call returns false.
C29_RestartPerMismatch ==
    zc_pc \in {"check", "sync", "synced", "over"} =>
        /\ Len(zc_restarts) = DifferingUpTo(Len(CheckedLicenses))
        /\ \A i \in 1..Len(CheckedLicenses) :
             LET lic == CheckedLicenses[i]
                 result == zs_results[i]
             IN IF Differs(lic)
                THEN LET call == zc_restarts[DifferingUpTo(i)]
                     IN /\ call.license_id = lic.licenseId
                        /\ result.is_mismatch
                        /\ result.status = StatusSent <=> call.returned
                        /\ result.status = StatusFailed <=> ~call.returned
                        /\ lic.licenseId = "" => ~call.emitted /\ ~call.returned
                        /\ lic.licenseId # "" => call.emitted
                ELSE /\ ~result.is_mismatch
                     /\ result.status = "OK"

\* C29: a zone with a license whose UI version alone differs and whose
\* signal was sent, and a license without ID, whose signal was not.
C29_Witness ==
    /\ zc_pc = "synced"
    /\ Len(zc_restarts) = 2
    /\ zc_restarts[1].license_id = "L3" /\ zc_restarts[1].returned
    /\ zc_restarts[2].license_id = "" /\ ~zc_restarts[2].emitted
    /\ zs_results[1].status = StatusSent
    /\ zs_results[2].status = StatusFailed

(***************************************************************************)
(* Properties of SheetsClient.upsert_row.                                  *)
(***************************************************************************)
\* No two rows of the sheet hold the same key.
KeysUnique(sheet) ==
    \A i, j \in 1..Len(sheet) : sheet[i].id = sheet[j].id => i = j

\* The rows of a sheet that hold a key.
RowsHolding(sheet, key_value) == {i \in 1..Len(sheet) : sheet[i].id = key_value}

NoLookupRaised == \A i \in 1..Len(us_calls) : ~us_calls[i].failed

\* What the claim says of the last call: an existing key has its first
\* row replaced and the row count unchanged, an absent key one row added
\* at the bottom.
LastUpsertAsClaimed ==
    us_calls # <<>> =>
        LET key_value == us_calls[Len(us_calls)].key_value
            rows == RowsHolding(us_before, key_value)
        IN IF rows # {}
           THEN /\ Len(us_sheet) = Len(us_before)
                /\ \A i \in 1..Len(us_before) :
                     us_sheet[i] # us_before[i] => i \in rows /\ \A j \in rows : i <= j
           ELSE /\ Len(us_sheet) = Len(us_before) + 1
                /\ SubSeq(us_sheet, 1, Len(us_before)) = us_before

\* C30 (as claimed): from a sheet with one row for a key at most, calls of
\* upsert_row whose lookups do not raise leave one row for a key at most,
\* an upsert of an existing key replacing its first row only and an
\* upsert of an absent key adding one row at the bottom.
C30_UpsertKeepsKeysUnique ==
    NoLookupRaised => KeysUnique(us_sheet) /\ LastUpsertAsClaimed

\* The keys that a cell shows as they were entered.
KeptAsEntered == \A i \in 1..Len(us_calls) :
    EnteredText(us_calls[i].key_value) = us_calls[i].key_value

\* The same for calls whose keys the sheet shows as they were entered.
UpsertKeepsEnteredKeysUnique ==
    NoLookupRaised /\ KeptAsEntered => KeysUnique(us_sheet) /\ LastUpsertAsClaimed

(***************************************************************************)
(* The specifications.  Each one runs one part of the program and leaves   *)
(* the variables of the other parts at rest.                               *)
(***************************************************************************)
vars == <<hoursVars, licenseVars, runVars, zoneFetchVars, syncVars, schedVars,
         requestVars, filterVars, blackVars, timestampVars,
                 zoneCheckVars, upsertVars>>

HoursIdle ==
    /\ sh_json = [t |-> "none"]
    /\ sh_tz = "UTC"
    /\ sh_clock = 0
    /\ sh_ret = "pending"

LicenseIdle ==
    /\ pl_lic = License("K1", "L1", "UTC", [t |-> "none"])
    /\ pl_resp = [t |-> "none"]
    /\ pl_clock = 0
    /\ pl_out = [k |-> "pending"]

RunIdle == RunInit

SyncIdle ==
    /\ zs_pc = "ready"
    /\ zs_prior = <<>>
    /\ zs_sheet = <<>>
    /\ zs_results = <<>>
    /\ zs_fails = {}

SchedIdle ==
    /\ sc_state = "running"
    /\ sc_agent = FALSE
    /\ sc_running = [j \in JobIds |-> 0]
    /\ sc_fired = [j \in JobIds |-> 0]
    /\ sc_last = [j \in JobIds |-> "none"]
    /\ sc_failures = [j \in JobIds |-> 0]

RequestIdle ==
    /\ ar_pc = "done"
    /\ ar_base_url = FALSE
    /\ ar_token = FALSE
    /\ ar_cookies = FALSE
    /\ ar_retry_on_401 = TRUE
    /\ ar_resp = [t |-> "none"]
    /\ ar_ret = [t |-> "none"]
    /\ ar_attempts = 0
    /\ ar_relogins = 0
    /\ ar_logins = 0

FilterIdle ==
    /\ fs_urls = <<>>
    /\ fs_tz = "UTC"
    /\ fs_clock = 0
    /\ fs_out = [t |-> "pending"]

BlackIdle ==
    /\ bs_image = [t |-> "broken"]
    /\ bs_ret = "pending"

ZoneCheckIdle ==
    /\ zc_pc = "over"
    /\ zc_zone = Len(ZONES)
    /\ zc_queue = <<>>
    /\ zc_restarts = <<>>

UpsertIdle ==
    /\ us_sheet = <<>>
    /\ us_before = <<>>
    /\ us_calls = <<>>

TimestampIdle ==
    /\ et_url = <<>>
    /\ et_tz = "UTC"
    /\ et_ret = [t |-> "pending"]

HoursNext == CallIsStoreOpen /\ UNCHANGED <<licenseVars, runVars, zoneFetchVars, syncVars, schedVars,
                 requestVars, filterVars, blackVars, timestampVars,
                 zoneCheckVars, upsertVars>>

HoursSpecInit ==
    HoursInit /\ LicenseIdle /\ RunIdle /\ ZoneFetchIdle /\ SyncIdle /\ SchedIdle /\ RequestIdle /\ FilterIdle /\ BlackIdle /\ TimestampIdle
    /\ ZoneCheckIdle /\ UpsertIdle

HoursSpec == HoursSpecInit /\ [][HoursNext]_vars

LicenseNext == CallProcessLicense /\ UNCHANGED <<hoursVars, runVars, zoneFetchVars, syncVars, schedVars,
                 requestVars, filterVars, blackVars, timestampVars,
                 zoneCheckVars, upsertVars>>

LicenseSpecInit ==
    LicenseInit /\ HoursIdle /\ RunIdle /\ ZoneFetchIdle /\ SyncIdle /\ SchedIdle /\ RequestIdle /\ FilterIdle /\ BlackIdle /\ TimestampIdle
    /\ ZoneCheckIdle /\ UpsertIdle

RunNext ==
    \/ StartRun /\ UNCHANGED <<hoursVars, licenseVars, zoneFetchVars, syncVars, schedVars,
                 requestVars, filterVars, blackVars, timestampVars,
                 zoneCheckVars, upsertVars>>
    \/ FetchPage /\ UNCHANGED <<hoursVars, licenseVars, zoneFetchVars, syncVars, schedVars,
                 requestVars, filterVars, blackVars, timestampVars,
                 zoneCheckVars, upsertVars>>
    \/ ProcessNextLicense /\ UNCHANGED <<hoursVars, licenseVars, zoneFetchVars, syncVars, schedVars,
                 requestVars, filterVars, blackVars, timestampVars,
                 zoneCheckVars, upsertVars>>

RunSpecInit ==
    RunInit /\ HoursIdle /\ LicenseIdle /\ ZoneFetchIdle /\ SyncIdle /\ SchedIdle /\ RequestIdle /\ FilterIdle /\ BlackIdle /\ TimestampIdle
    /\ ZoneCheckIdle /\ UpsertIdle

RunSpec == RunSpecInit /\ [][RunNext]_vars

\* The two paginated listings: the runs of the screenshot check from the
\* first on, or, with those runs over, one call of _fetch_zone_licenses.
RunsOver ==
    /\ rs_pc = "idle"
    /\ rs_page = 1
    /\ rs_queue = <<>>
    /\ rs_row_counter = 1
    /\ rs_sheet = <<>>
    /\ rs_runs = MaxRuns
    /\ rs_opened = [k \in RunKeys |-> 0]
    /\ rs_requests = <<>>
    /\ rs_taken = 0
    /\ rs_last = "none"

PagingNext ==
    \/ RunNext
    \/ ZoneFetchPage /\ UNCHANGED <<hoursVars, licenseVars, runVars, syncVars, schedVars,
                 requestVars, filterVars, blackVars, timestampVars,
                 zoneCheckVars, upsertVars>>

PagingSpecInit ==
    /\ HoursIdle /\ LicenseIdle /\ SyncIdle /\ SchedIdle /\ RequestIdle /\ FilterIdle /\ BlackIdle /\ TimestampIdle
    /\ ZoneCheckIdle /\ UpsertIdle
    /\ \/ RunInit /\ ZoneFetchIdle
       \/ RunsOver /\ ZoneFetchInit

PagingSpec == PagingSpecInit /\ [][PagingNext]_vars

checkVars ==
    <<hoursVars, licenseVars, runVars, zoneFetchVars, syncVars, requestVars, filterVars, blackVars, timestampVars,
                 zoneCheckVars, upsertVars>>

SchedNext ==
    \/ \E j \in JobIds : Fire(j) /\ UNCHANGED checkVars
    \/ \E j \in JobIds : Finish(j) /\ UNCHANGED checkVars
    \/ Interrupt /\ UNCHANGED checkVars

SchedSpecInit ==
    /\ SchedInit /\ HoursIdle /\ LicenseIdle /\ RunIdle /\ ZoneFetchIdle
    /\ SyncIdle /\ RequestIdle /\ FilterIdle /\ BlackIdle /\ TimestampIdle
    /\ ZoneCheckIdle /\ UpsertIdle

SchedSpec == SchedSpecInit /\ [][SchedNext]_vars

requestRest ==
    <<hoursVars, licenseVars, runVars, zoneFetchVars, syncVars, schedVars,
      filterVars, blackVars, timestampVars, zoneCheckVars, upsertVars>>

RequestNext ==
    \/ EnsureAuth /\ UNCHANGED requestRest
    \/ Send /\ UNCHANGED requestRest
    \/ Unauthorized /\ UNCHANGED requestRest
    \/ Respond /\ UNCHANGED requestRest

RequestSpecInit ==
    /\ RequestInit /\ HoursIdle /\ LicenseIdle /\ RunIdle /\ ZoneFetchIdle
    /\ SyncIdle /\ SchedIdle /\ FilterIdle /\ BlackIdle /\ TimestampIdle
    /\ ZoneCheckIdle /\ UpsertIdle

RequestSpec == RequestSpecInit /\ [][RequestNext]_vars

SyncNext == CallSyncZoneSheet /\ UNCHANGED <<hoursVars, licenseVars, runVars, zoneFetchVars, schedVars,
                 requestVars, filterVars, blackVars, timestampVars,
                 zoneCheckVars, upsertVars>>

SyncSpecInit ==
    SyncInit /\ HoursIdle /\ LicenseIdle /\ RunIdle /\ ZoneFetchIdle /\ SchedIdle /\ RequestIdle /\ FilterIdle /\ BlackIdle /\ TimestampIdle
    /\ ZoneCheckIdle /\ UpsertIdle

SyncSpec == SyncSpecInit /\ [][SyncNext]_vars

LicenseSpec == LicenseSpecInit /\ [][LicenseNext]_vars

FilterNext ==
    CallFilterScreenshotsForToday
    /\ UNCHANGED <<hoursVars, licenseVars, runVars, zoneFetchVars, syncVars,
                   schedVars, requestVars, blackVars, timestampVars,
                 zoneCheckVars, upsertVars>>

FilterSpecInit ==
    /\ FilterInit /\ HoursIdle /\ LicenseIdle /\ RunIdle /\ ZoneFetchIdle
    /\ SyncIdle /\ SchedIdle /\ RequestIdle /\ BlackIdle /\ TimestampIdle
    /\ ZoneCheckIdle /\ UpsertIdle

FilterSpec == FilterSpecInit /\ [][FilterNext]_vars

BlackNext ==
    CallIsBlackScreen
    /\ UNCHANGED <<hoursVars, licenseVars, runVars, zoneFetchVars, syncVars,
                   schedVars, requestVars, filterVars, timestampVars,
                 zoneCheckVars, upsertVars>>

BlackSpecInit ==
    /\ BlackInit /\ HoursIdle /\ LicenseIdle /\ RunIdle /\ ZoneFetchIdle
    /\ SyncIdle /\ SchedIdle /\ RequestIdle /\ FilterIdle /\ TimestampIdle
    /\ ZoneCheckIdle /\ UpsertIdle

BlackSpec == BlackSpecInit /\ [][BlackNext]_vars

TimestampNext ==
    CallExtractTimestampFromUrl
    /\ UNCHANGED <<hoursVars, licenseVars, runVars, zoneFetchVars, syncVars,
                   schedVars, requestVars, filterVars, blackVars,
                   zoneCheckVars, upsertVars>>

TimestampSpecInit ==
    /\ TimestampInit /\ HoursIdle /\ LicenseIdle /\ RunIdle /\ ZoneFetchIdle
    /\ SyncIdle /\ SchedIdle /\ RequestIdle /\ FilterIdle /\ BlackIdle
    /\ ZoneCheckIdle /\ UpsertIdle

TimestampSpec == TimestampSpecInit /\ [][TimestampNext]_vars

\* One call of _process_license on a listing longer than the sample.
SampleSpecInit ==
    /\ SampleInit /\ HoursIdle /\ RunIdle /\ ZoneFetchIdle /\ SyncIdle
    /\ SchedIdle /\ RequestIdle /\ FilterIdle /\ BlackIdle /\ TimestampIdle
    /\ ZoneCheckIdle /\ UpsertIdle

SampleSpec == SampleSpecInit /\ [][LicenseNext]_vars

zoneCheckRest ==
    <<hoursVars, licenseVars, runVars, schedVars, requestVars, filterVars,
      blackVars, timestampVars, upsertVars>>

ZoneCheckNext ==
    \/ ZoneCheckFetch /\ UNCHANGED zoneCheckRest
    \/ CheckLicense /\ UNCHANGED zoneCheckRest
    \/ SyncZone /\ UNCHANGED zoneCheckRest
    \/ NextZone /\ UNCHANGED zoneCheckRest

ZoneCheckSpecInit ==
    /\ ZoneCheckInit /\ HoursIdle /\ LicenseIdle /\ RunIdle /\ SchedIdle
    /\ RequestIdle /\ FilterIdle /\ BlackIdle /\ TimestampIdle /\ UpsertIdle

ZoneCheckSpec == ZoneCheckSpecInit /\ [][ZoneCheckNext]_vars

UpsertNext ==
    CallUpsertRow
    /\ UNCHANGED <<hoursVars, licenseVars, runVars, zoneFetchVars, syncVars,
                   schedVars, requestVars, filterVars, blackVars, timestampVars,
                   zoneCheckVars>>

UpsertSpecInit ==
    /\ UpsertInit /\ HoursIdle /\ LicenseIdle /\ RunIdle /\ ZoneFetchIdle
    /\ SyncIdle /\ SchedIdle /\ RequestIdle /\ FilterIdle /\ BlackIdle
    /\ TimestampIdle /\ ZoneCheckIdle

UpsertSpec == UpsertSpecInit /\ [][UpsertNext]_vars

=============================================================================
